---- MODULE Spec2Model ----
(***************************************************************************)
(* A model of hdl.cpp: the two-state simulator (hdl::sim::Simulation) run   *)
(* on a family of small modules, and the hash-consing tables of            *)
(* hdl::Module.                                                            *)
(***************************************************************************)
EXTENDS Integers, Sequences, FiniteSets, TLC

\* ------------------------------------------------------------------ bounds

\* width of the counter register of the Counter module
CounterWidth == 2
\* width of the address input of the Ram module, which has 2^RamAddrWidth cells
RamAddrWidth == 1
\* width of the address input of the RamWrap module
AddrWidth == 2
\* number of cells of the RamWrap memory: fewer than it has addresses
MemSize == 3
\* the sub-step counter of one update call saturates here
MaxSteps == 3
\* the number of addresses of the heap a Module allocates its nodes in
HeapSize == 3
\* the width of size_t
SizeBits == 64

\* ------------------------------------------------------------- BitString

RECURSIVE Pow2(_)
Pow2(n) ==
  IF n = 0 THEN 1 ELSE 2 * Pow2(n - 1)

\* A BitString is its width and its bits as a number below 2^width: every
\* reader of the word array masks the bits above the width.
Bits(w, v) ==
  [width |-> w, value |-> v % Pow2(w)]

\* BitString(): the default-constructed BitString of width 0
EmptyBits ==
  [width |-> 0, value |-> 0]

\* BitString(width): all zero
ZeroBits(w) ==
  [width |-> w, value |-> 0]

\* the result of an operator that throws hdl::Error
Thrown ==
  [width |-> -1, value |-> 0]

from_bool(b) ==
  [width |-> 1, value |-> IF b THEN 1 ELSE 0]

\* at(index): throws when index >= width
at(a, i) ==
  (a.value \div Pow2(i)) % 2 = 1

as_uint64(a) ==
  a.value

is_zero(a) ==
  a.value = 0

is_all_ones(a) ==
  a.value = Pow2(a.width) - 1

RECURSIVE BitwiseNat(_, _, _, _)
BitwiseNat(f, x, y, w) ==
  IF w = 0 THEN 0
  ELSE LET bx == x % 2
           by == y % 2
           b == CASE f = "and" -> bx * by
                  [] f = "or" -> IF bx + by > 0 THEN 1 ELSE 0
                  [] OTHER -> (bx + by) % 2
       IN b + 2 * BitwiseNat(f, x \div 2, y \div 2, w - 1)

\* BINOP(&), BINOP(|), BINOP(^): ensure_same_width, then word by word
BitAnd(a, b) ==
  IF a.width # b.width THEN Thrown
  ELSE [width |-> a.width, value |-> BitwiseNat("and", a.value, b.value, a.width)]

BitOr(a, b) ==
  IF a.width # b.width THEN Thrown
  ELSE [width |-> a.width, value |-> BitwiseNat("or", a.value, b.value, a.width)]

BitXor(a, b) ==
  IF a.width # b.width THEN Thrown
  ELSE [width |-> a.width, value |-> BitwiseNat("xor", a.value, b.value, a.width)]

\* operator~
BitNot(a) ==
  [width |-> a.width, value |-> Pow2(a.width) - 1 - a.value]

\* add_carry<false, false>
BitAdd(a, b) ==
  IF a.width # b.width THEN Thrown
  ELSE Bits(a.width, a.value + b.value)

\* add_carry<true, true>: a + ~b + 1
BitSub(a, b) ==
  IF a.width # b.width THEN Thrown
  ELSE Bits(a.width, a.value + (Pow2(a.width) - 1 - b.value) + 1)

\* operator==: false on different widths, never throws
BitEq(a, b) ==
  a.width = b.width /\ a.value = b.value

lt_u(a, b) ==
  a.value < b.value

lt_s(a, b) ==
  IF at(a, a.width - 1) = at(b, b.width - 1) THEN lt_u(a, b)
  ELSE at(a, a.width - 1) /\ ~at(b, b.width - 1)

\* concat: this is the high part, other the low part
concat(a, b) ==
  [width |-> a.width + b.width, value |-> a.value * Pow2(b.width) + b.value]

slice_width(a, offset, width) ==
  IF offset + width > a.width THEN Thrown
  ELSE Bits(width, a.value \div Pow2(offset))

\* operator<<(size_t)
shl(a, shift) ==
  Bits(a.width, a.value * Pow2(shift))

shr_u(a, shift) ==
  Bits(a.width, a.value \div Pow2(shift))

\* shr_s: shr_u, then the upper bits filled when the sign bit is set
shr_s(a, shift) ==
  IF a.width = 0 THEN Thrown
  ELSE IF ~at(a, a.width - 1) THEN shr_u(a, shift)
  ELSE LET from == IF shift >= a.width THEN 0 ELSE a.width - shift
       IN [width |-> a.width,
           value |-> ((a.value \div Pow2(shift)) % Pow2(from))
                     + (Pow2(a.width) - Pow2(from))]

mul_u(a, b) ==
  [width |-> a.width + b.width, value |-> a.value * b.value]

\* Op::eval on the argument BitStrings
OpEval(kind, xs) ==
  CASE kind = "And" -> BitAnd(xs[1], xs[2])
    [] kind = "Or" -> BitOr(xs[1], xs[2])
    [] kind = "Xor" -> BitXor(xs[1], xs[2])
    [] kind = "Not" -> BitNot(xs[1])
    [] kind = "Add" -> BitAdd(xs[1], xs[2])
    [] kind = "Sub" -> BitSub(xs[1], xs[2])
    [] kind = "Mul" -> mul_u(xs[1], xs[2])
    [] kind = "Eq" -> from_bool(BitEq(xs[1], xs[2]))
    [] kind = "LtU" ->
         IF xs[1].width # xs[2].width THEN Thrown
         ELSE from_bool(lt_u(xs[1], xs[2]))
    [] kind = "LtS" ->
         IF xs[1].width # xs[2].width \/ xs[1].width = 0 THEN Thrown
         ELSE from_bool(lt_s(xs[1], xs[2]))
    [] kind = "LeU" ->
         IF xs[1].width # xs[2].width THEN Thrown
         ELSE from_bool(lt_u(xs[1], xs[2]) \/ BitEq(xs[1], xs[2]))
    [] kind = "LeS" ->
         IF xs[1].width # xs[2].width \/ xs[1].width = 0 THEN Thrown
         ELSE from_bool(lt_s(xs[1], xs[2]) \/ BitEq(xs[1], xs[2]))
    [] kind = "Concat" -> concat(xs[1], xs[2])
    [] kind = "Slice" -> slice_width(xs[1], as_uint64(xs[2]), as_uint64(xs[3]))
    [] kind = "Shl" -> shl(xs[1], as_uint64(xs[2]))
    [] kind = "ShrU" -> shr_u(xs[1], as_uint64(xs[2]))
    [] kind = "ShrS" -> shr_s(xs[1], as_uint64(xs[2]))
    [] OTHER ->
         IF xs[1].width = 0 THEN Thrown
         ELSE IF at(xs[1], 0) THEN xs[2] ELSE xs[3]

\* ------------------------------------------------------------------ nodes

\* hdl::Input
Input(name, w) ==
  [t |-> "Input", width |-> w, name |-> name]

\* hdl::Constant
Constant(bits) ==
  [t |-> "Constant", width |-> bits.width, value |-> bits]

\* hdl::Unknown
Unknown(w) ==
  [t |-> "Unknown", width |-> w]

\* hdl::Op, its width as Op::infer_width gives it
Op(kind, args, w) ==
  [t |-> "Op", width |-> w, kind |-> kind, args |-> args]

\* hdl::Reg
Reg(initial, clock, next) ==
  [t |-> "Reg", width |-> initial.width, initial |-> initial, clock |-> clock,
   next |-> next]

\* hdl::Memory::Read
Read(memory, address, w) ==
  [t |-> "Read", width |-> w, memory |-> memory, address |-> address]

\* hdl::Memory::Write
Write(clock, address, enable, value) ==
  [clock |-> clock, address |-> address, enable |-> enable, value |-> value]

\* hdl::Memory: initial holds the non-zero initial cells only (Memory::init)
Memory(w, size, initial, writes) ==
  [width |-> w, size |-> size, initial |-> initial, writes |-> writes]

\* hdl::Module as the simulator reads it: the node a pointer names, and the
\* lists inputs(), regs(), memories(), outputs()
Module(nodes, inputs, regs, memories, outputs) ==
  [nodes |-> nodes, inputs |-> inputs, regs |-> regs, memories |-> memories,
   outputs |-> outputs]

NoCells ==
  [a \in {} |-> EmptyBits]

\* ---------------------------------------------------------------- modules

\* test_hdl.cpp "Counter Simulation": counter.next = counter + 1
Counter ==
  Module(<<Input("clock", 1),
           Reg(ZeroBits(CounterWidth), 1, 4),
           Constant(Bits(CounterWidth, 1)),
           Op("Add", <<3, 2>>, CounterWidth)>>,
         <<1>>, <<2>>, <<>>, <<2>>)

\* test_hdl.cpp "Memory Simulation": one write port, one read of the address
\* input, every address below the size; cell 1 starts at 1
Ram ==
  Module(<<Input("clock", 1), Input("address", RamAddrWidth),
           Input("write_value", 1), Input("write_enable", 1), Read(1, 2, 1)>>,
         <<1, 2, 3, 4>>, <<>>,
         <<Memory(1, Pow2(RamAddrWidth), (1 :> Bits(1, 1)),
                  <<Write(1, 2, 4, 3)>>)>>,
         <<5>>)

\* the same memory with fewer cells than addresses
RamWrap ==
  Module(<<Input("clock", 1), Input("address", AddrWidth),
           Input("write_value", 1), Input("write_enable", 1), Read(1, 2, 1)>>,
         <<1, 2, 3, 4>>, <<>>,
         <<Memory(1, MemSize, NoCells, <<Write(1, 2, 4, 3)>>)>>,
         <<5>>)

\* two registers on one clock that exchange their values
Swap ==
  Module(<<Input("clock", 1),
           Reg(Bits(1, 0), 1, 3),
           Reg(Bits(1, 1), 1, 2)>>,
         <<1>>, <<2, 3>>, <<>>, <<2, 3>>)

\* a memory with two write ports on one clock: port 1 writes the input v to
\* cell 0, port 2 writes memory.read(0) to cell 1
TwoPort ==
  Module(<<Input("clock", 1), Input("v", 1), Input("sel", 1),
           Constant(Bits(1, 0)), Constant(Bits(1, 1)),
           Read(1, 4, 1), Read(1, 3, 1)>>,
         <<1, 2, 3>>, <<>>,
         <<Memory(1, 2, NoCells, <<Write(1, 4, 5, 2), Write(1, 5, 5, 6)>>)>>,
         <<7>>)

\* two registers whose clocks are driven by the registers themselves:
\* a is clocked by en & (a == b), b by a ^ b, and each inverts itself
Osc ==
  Module(<<Input("en", 1),
           Reg(Bits(1, 0), 6, 7),
           Reg(Bits(1, 0), 5, 8),
           Op("Eq", <<2, 3>>, 1),
           Op("Xor", <<2, 3>>, 1),
           Op("And", <<1, 4>>, 1),
           Op("Not", <<2>>, 1),
           Op("Not", <<3>>, 1)>>,
         <<1>>, <<2, 3>>, <<>>, <<2, 3>>)

\* a ripple counter: a toggles on the clock input, b toggles when a rises
Ripple ==
  Module(<<Input("clock", 1),
           Reg(Bits(1, 0), 1, 4),
           Reg(Bits(1, 0), 2, 5),
           Op("Not", <<2>>, 1),
           Op("Not", <<3>>, 1)>>,
         <<1>>, <<2, 3>>, <<>>, <<2, 3>>)

\* an input that is an output, the next value of a register and an operand
Pass ==
  Module(<<Input("a", 2), Input("k", 1),
           Reg(Bits(2, 0), 2, 1),
           Op("Not", <<1>>, 2),
           Constant(Bits(2, 0)),
           Op("Select", <<2, 4, 5>>, 2)>>,
         <<1, 2>>, <<3>>, <<>>, <<1, 3, 6>>)

\* Select over an Unknown and over an out-of-bounds Slice; r1.next evaluates
\* the Unknown through Xor only when d = 1
Lazy ==
  Module(<<Input("c", 1), Input("d", 1), Input("a", 2), Input("k", 1),
           Unknown(2),
           Constant(Bits(2, 1)), Constant(Bits(2, 2)),
           Op("Slice", <<3, 6, 7>>, 2),
           Op("Select", <<2, 5, 3>>, 2),
           Op("Select", <<2, 3, 8>>, 2),
           Op("Select", <<1, 9, 10>>, 2),
           Reg(Bits(2, 0), 4, 3),
           Reg(Bits(2, 0), 4, 14),
           Op("Xor", <<3, 9>>, 2)>>,
         <<1, 2, 3, 4>>, <<12, 13>>, <<>>, <<11>>)

ModuleNames ==
  {"Counter", "Ram", "RamWrap", "Swap", "TwoPort", "Osc", "Ripple", "Pass", "Lazy"}

ModuleOf(name) ==
  CASE name = "Counter" -> Counter
    [] name = "Ram" -> Ram
    [] name = "RamWrap" -> RamWrap
    [] name = "Swap" -> Swap
    [] name = "TwoPort" -> TwoPort
    [] name = "Osc" -> Osc
    [] name = "Ripple" -> Ripple
    [] name = "Pass" -> Pass
    [] OTHER -> Lazy

\* -------------------------------------------------------------- Simulation

\* MemoryData(memory): data starts as a copy of memory->initial
MemoryData(memory) ==
  memory.initial

\* MemoryData::operator[]: the cell an address names
MemoryIndexWithoutWrap(memory, address) ==
  address

MemoryIndex(memory, address) ==
  IF address >= memory.size THEN address % memory.size ELSE address

\* MemoryData::operator[]: a cell that is absent is inserted as zero
MemoryTouch(memory, data, address) ==
  LET i == MemoryIndex(memory, address)
  IN IF i \in DOMAIN data THEN data ELSE (i :> ZeroBits(memory.width)) @@ data

\* the state one update_step works on: the values map, the memories, the
\* registers and outputs, whether something changed, the error thrown (if
\* any) and the result of the last eval
Fail(w, e) ==
  [w EXCEPT !.err = e]

\* the end of eval: the width check, then values[value] = result
EvalStore(M, v, w, result) ==
  IF result.width # M.nodes[v].width THEN Fail(w, "Error")
  ELSE [w EXCEPT !.vals = (v :> result) @@ w.vals, !.res = result]

\* F applied to the value of e, which is evaluated once
Bind(F(_), e) ==
  CHOOSE r \in {F(a) : a \in {e}} : TRUE

RECURSIVE eval(_, _, _)
RECURSIVE EvalArgs(_, _, _, _)

\* the strict operators: every argument is evaluated, in order
EvalArgs(M, args, i, w) ==
  IF i > Len(args) THEN w
  ELSE LET Then(a) == IF a.err # "none" THEN a ELSE EvalArgs(M, args, i + 1, a)
       IN Bind(Then, eval(M, args[i], w))

\* Select evaluated as the other operators are: every argument, then the choice
EvalSelectEager(M, v, w) ==
  LET n == M.nodes[v]
      Then(a) ==
        IF a.err # "none" THEN a
        ELSE IF a.vals[n.args[1]].width = 0 THEN Fail(a, "Error")
        ELSE EvalStore(M, v, a, IF at(a.vals[n.args[1]], 0)
                                  THEN a.vals[n.args[2]]
                                  ELSE a.vals[n.args[3]])
  IN Bind(Then, EvalArgs(M, n.args, 1, w))

\* Select: the condition, then only the branch it chooses
EvalSelect(M, v, w) ==
  LET n == M.nodes[v]
      Branch(b) == IF b.err # "none" THEN b ELSE EvalStore(M, v, b, b.res)
      Cond(c) ==
        IF c.err # "none" THEN c
        ELSE IF c.res.width = 0 THEN Fail(c, "Error")
        ELSE Bind(Branch, eval(M, IF at(c.res, 0) THEN n.args[2] ELSE n.args[3], c))
  IN Bind(Cond, eval(M, n.args[1], w))

\* the strict operators: the arguments, then Op::eval on their values
EvalOp(M, v, w) ==
  LET n == M.nodes[v]
      Apply(a, r) == IF r = Thrown THEN Fail(a, "Error") ELSE EvalStore(M, v, a, r)
      Then(a) ==
        IF a.err # "none" THEN a
        ELSE Apply(a, OpEval(n.kind, [i \in DOMAIN n.args |-> a.vals[n.args[i]]]))
  IN Bind(Then, EvalArgs(M, n.args, 1, w))

\* Memory::Read: the address, then _memories.at(read->memory)[address]
EvalRead(M, v, w) ==
  LET n == M.nodes[v]
      memory == M.memories[n.memory]
      Cell(a, data) ==
        EvalStore(M, v, [a EXCEPT !.mems[n.memory] = data],
                  data[MemoryIndex(memory, as_uint64(a.res))])
      Then(a) ==
        IF a.err # "none" THEN a
        ELSE Cell(a, MemoryTouch(memory, a.mems[n.memory], as_uint64(a.res)))
  IN Bind(Then, eval(M, n.address, w))

\* Simulation::eval
eval(M, v, w) ==
  IF v \in DOMAIN w.vals THEN [w EXCEPT !.res = w.vals[v]]
  ELSE CASE M.nodes[v].t = "Constant" -> EvalStore(M, v, w, M.nodes[v].value)
         [] M.nodes[v].t = "Unknown" -> Fail(w, "Error")
         [] M.nodes[v].t = "Op" ->
              IF M.nodes[v].kind = "Select" THEN EvalSelect(M, v, w)
              ELSE EvalOp(M, v, w)
         [] M.nodes[v].t = "Read" -> EvalRead(M, v, w)
         [] OTHER -> Fail(w, "Error")

\* update_step: _outputs[it++] = eval(output.value, values)
RECURSIVE StepOutputs(_, _, _)
StepOutputs(M, i, w) ==
  IF i > Len(M.outputs) \/ w.err # "none" THEN w
  ELSE LET Then(o) ==
             IF o.err # "none" THEN o
             ELSE StepOutputs(M, i + 1, [o EXCEPT !.outputs[i] = o.res])
       IN Bind(Then, eval(M, M.outputs[i], w))

\* a clock that fires whenever it is true
RisingLevel(clock, prev) ==
  clock

\* the rising edge of a clock: it evaluates to true and its prev_clocks entry
\* is false
Rising(clock, prev) ==
  clock /\ ~prev

\* update_step: the loop over the registers
RECURSIVE StepRegs(_, _, _, _)
StepRegs(M, prev, i, w) ==
  IF i > Len(M.regs) \/ w.err # "none" THEN w
  ELSE LET reg == M.nodes[M.regs[i]]
           Fire(x) ==
             IF x.err # "none" THEN x
             ELSE StepRegs(M, prev, i + 1,
                           [x EXCEPT !.regs[i] = x.res, !.changed = TRUE])
           Clock(c) ==
             IF c.err # "none" THEN c
             ELSE IF c.res.width = 0 THEN Fail(c, "Error")
             ELSE IF Rising(at(c.res, 0), prev[reg.clock])
             THEN Bind(Fire, eval(M, reg.next, c))
             ELSE StepRegs(M, prev, i + 1, c)
       IN Bind(Clock, eval(M, reg.clock, w))

\* a store that drops the other cells of the memory
StoreCellOnly(data, i, value) ==
  (i :> value)

\* update_step: _memories[memory][address] = value
StoreCell(data, i, value) ==
  (i :> value) @@ data

\* update_step: one write port of memory m
StepWrite(M, prev, m, write, w) ==
  LET memory == M.memories[m]
      Address(a) ==
        LET Store(x) ==
              IF x.err # "none" THEN x
              ELSE [x EXCEPT !.mems[m] =
                               StoreCell(x.mems[m],
                                         MemoryIndex(memory, as_uint64(a.res)), x.res),
                             !.changed = TRUE]
        IN IF a.err # "none" THEN a
           ELSE Bind(Store, eval(M, write.value, a))
      Enable(e) ==
        IF e.err # "none" THEN e
        ELSE IF e.res.width = 0 THEN Fail(e, "Error")
        ELSE IF ~at(e.res, 0) THEN e
        ELSE Bind(Address, eval(M, write.address, e))
      Clock(c) ==
        IF c.err # "none" THEN c
        ELSE IF c.res.width = 0 THEN Fail(c, "Error")
        ELSE IF ~Rising(at(c.res, 0), prev[write.clock]) THEN c
        ELSE Bind(Enable, eval(M, write.enable, c))
  IN Bind(Clock, eval(M, write.clock, w))

\* update_step: the loop over the memories and their write ports
RECURSIVE StepWrites(_, _, _, _, _)
StepWrites(M, prev, m, k, w) ==
  IF m > Len(M.memories) \/ w.err # "none" THEN w
  ELSE IF k > Len(M.memories[m].writes) THEN StepWrites(M, prev, m + 1, 1, w)
  ELSE LET Rest(x) == StepWrites(M, prev, m, k + 1, x)
       IN Bind(Rest, StepWrite(M, prev, m, M.memories[m].writes[k], w))

\* update_step: values[reg] = _regs[it++], on top of the initial values
StepValues(M, regs, initial) ==
  [v \in DOMAIN initial \cup {M.regs[i] : i \in DOMAIN M.regs} |->
     IF \E i \in DOMAIN M.regs : M.regs[i] = v
     THEN regs[CHOOSE i \in DOMAIN M.regs : M.regs[i] = v]
     ELSE initial[v]]

\* update_step up to the update of prev_clocks
StepWork(M, sim, initial) ==
  LET Outputs(w) == StepOutputs(M, 1, w)
      Regs(w) == StepRegs(M, sim.prev_clocks, 1, w)
      Writes(w) == StepWrites(M, sim.prev_clocks, 1, 1, w)
  IN Bind(Writes, Bind(Regs, Bind(Outputs,
       [vals |-> StepValues(M, sim.regs, initial), mems |-> sim.memories,
        regs |-> sim.regs, outputs |-> sim.outputs, changed |-> FALSE,
        err |-> "none", res |-> EmptyBits])))

\* prev_clocks left as it was
StepPrevClocksStale(M, prev, w) ==
  prev

\* update_step: for (auto& [value, prev] : _prev_clocks) prev = eval(value)[0];
\* a step that throws before leaves prev_clocks as it was
StepPrevClocks(M, prev, w) ==
  IF w.err # "none" THEN prev
  ELSE [c \in DOMAIN prev |-> at(eval(M, c, w).res, 0)]

\* what update_step leaves and returns
StepResult(M, prev, w) ==
  [regs |-> w.regs, memories |-> w.mems, outputs |-> w.outputs,
   prev_clocks |-> StepPrevClocks(M, prev, w),
   changed |-> w.changed, err |-> w.err]

\* Simulation::update_step
update_step(M, sim, initial) ==
  LET Result(w) == StepResult(M, sim.prev_clocks, w)
  IN Bind(Result, StepWork(M, sim, initial))

\* ----------------------------------------------------------------- Module

\* the addresses operator new can return
Ptr ==
  1..HeapSize

\* the cell of an address that holds no node
Freed ==
  [t |-> "Freed"]

\* BitString(width): all bits zero
BitString(w) ==
  ZeroBits(w)

\* BitString::from_uint<size_t>: a BitString of the width of size_t
from_uint(v) ==
  [width |-> SizeBits, value |-> v]

\* Module::Module: no node, every list empty
NewModule ==
  [heap |-> [p \in Ptr |-> Freed], constants |-> {}, ops |-> {},
   regs |-> <<>>, memories |-> <<>>, inputs |-> <<>>, outputs |-> <<>>,
   unknowns |-> <<>>]

Range(s) ==
  {s[i] : i \in DOMAIN s}

\* a call on module m: res is the pointer it returns, err what it throws. A
\* call that allocates has one outcome for every address operator new can
\* return, so every operation below gives the set of its outcomes.
Call(m) ==
  [mod |-> m, res |-> 0, err |-> "none"]

\* the outcomes of F on every outcome of S
Each(F(_), S) ==
  UNION {F(a) : a \in S}

Throw(h, e) ==
  [h EXCEPT !.err = e]

Return(h, p) ==
  [h EXCEPT !.res = p]

\* new T(node): any free address (none when the heap of the model is full)
New(h, node) ==
  {[h EXCEPT !.mod.heap[p] = node, !.res = p] :
     p \in {q \in DOMAIN h.mod.heap : h.mod.heap[q].t = "Freed"}}

\* Constant::hashcons_equal (BitString::operator== compares width and bits)
\* and Op::hashcons_equal
hashcons_equal(a, b) ==
  IF a.t = "Constant" THEN a.value = b.value
  ELSE a.kind = b.kind /\ a.args = b.args

\* a table that never finds a node
HashconsFindNothing(table, heap, node) ==
  {}

\* _nodes.find(cell): the nodes of the table equal to node
HashconsFind(table, heap, node) ==
  {p \in table : hashcons_equal(heap[p], node)}

\* Hashcons<T>::operator[] on the table _constants or _ops
Hashcons(h, table, node) ==
  LET Insert(n) ==
        {[n EXCEPT !.mod[table] = @ \cup {n.res}]}
      Lookup(found) ==
        IF found = {} THEN Each(Insert, New(h, node))
        ELSE {Return(h, p) : p \in found}
  IN Each(Lookup, {HashconsFind(h.mod[table], h.mod.heap, node)})

\* Module::constant
constant(h, bit_string) ==
  Hashcons(h, "constants", Constant(bit_string))

\* Module::input
input(h, name, width) ==
  LET Push(n) ==
        {[n EXCEPT !.mod.inputs = Append(@, n.res)]}
  IN Each(Push, New(h, Input(name, width)))

\* Module::output
output(h, value) ==
  {[h EXCEPT !.mod.outputs = Append(@, value)]}

\* Op::is_commutative
is_commutative(kind) ==
  kind \in {"And", "Or", "Xor", "Add", "Eq"}

IsConstant(heap, p) ==
  heap[p].t = "Constant"

IsOp(heap, p, kind) ==
  heap[p].t = "Op" /\ heap[p].kind = kind

\* Module::unknown
unknown(h, width) ==
  LET Push(n) ==
        {[n EXCEPT !.mod.unknowns = Append(@, n.res)]}
  IN Each(Push, New(h, Unknown(width)))

\* Module::reg: the register is its own next value until the client assigns one
reg(h, initial, clock) ==
  LET Push(n) ==
        {[n EXCEPT !.mod.heap[n.res].next = n.res, !.mod.regs = Append(@, n.res)]}
  IN Each(Push, New(h, Reg(initial, clock, 0)))

\* reg->next = value, an assignment the client makes
AssignNext(h, r, value) ==
  {[h EXCEPT !.mod.heap[r].next = value, !.res = 0]}

\* hdl::Memory as a node of the module: no initial cell, no write, no read
MemoryNode(width, size) ==
  [t |-> "Memory", width |-> width, size |-> size, initial |-> NoCells,
   writes |-> <<>>, reads |-> [a \in {} |-> 0]]

\* Module::memory
memory(h, width, size) ==
  LET Push(n) ==
        {[n EXCEPT !.mod.memories = Append(@, n.res)]}
  IN Each(Push, New(h, MemoryNode(width, size)))

\* Memory::write
MemoryWrite(h, mem, clock, address, enable, value) ==
  LET heap == h.mod.heap
  IN IF \/ heap[clock].width # 1
        \/ heap[value].width # heap[mem].width
        \/ heap[enable].width # 1
     THEN {Throw(h, "Error")}
     ELSE IF IsConstant(heap, enable) /\ is_zero(heap[enable].value)
     THEN {Return(h, 0)}
     ELSE {[h EXCEPT !.mod.heap[mem].writes =
                       Append(@, Write(clock, address, enable, value)),
                     !.res = 0]}

\* Memory::read
MemoryRead(h, mem, address) ==
  LET reads == h.mod.heap[mem].reads
      Insert(n) ==
        {[n EXCEPT !.mod.heap[mem].reads = (address :> n.res) @@ @]}
  IN IF address \in DOMAIN reads THEN {Return(h, reads[address])}
     ELSE Each(Insert, New(h, Read(mem, address, h.mod.heap[mem].width)))

\* a call whose arguments are never all constant
AllConstantNever(heap, args) ==
  FALSE

\* Module::op: is_constant, every argument is a Constant
AllConstant(heap, args) ==
  \A i \in DOMAIN args : IsConstant(heap, args[i])

\* Op::infer_width; -1 when it throws
infer_width(heap, kind, args) ==
  LET w(i) == heap[args[i]].width
  IN CASE kind = "Not" -> IF Len(args) # 1 THEN -1 ELSE w(1)
       [] kind \in {"And", "Or", "Xor", "Add", "Sub"} ->
            IF Len(args) # 2 THEN -1 ELSE IF w(1) # w(2) THEN -1 ELSE w(1)
       [] kind \in {"Mul", "Concat"} ->
            IF Len(args) # 2 THEN -1 ELSE w(1) + w(2)
       [] kind \in {"Eq", "LtU", "LtS", "LeU", "LeS"} ->
            IF Len(args) # 2 THEN -1 ELSE IF w(1) # w(2) THEN -1 ELSE 1
       [] kind = "Slice" ->
            IF Len(args) # 3 THEN -1
            ELSE IF IsConstant(heap, args[3]) THEN as_uint64(heap[args[3]].value)
            ELSE -1
       [] kind \in {"Shl", "ShrU", "ShrS"} ->
            IF Len(args) # 2 THEN -1 ELSE w(1)
       [] OTHER ->
            IF Len(args) # 3 THEN -1 ELSE IF w(2) # w(3) THEN -1 ELSE w(2)

\* the arguments as the client gave them
CanonicalAsGiven(heap, kind, args) ==
  args

\* Module::op, the swap of the arguments of a commutative operator
Canonical(heap, kind, args) ==
  IF ~is_commutative(kind) THEN args
  ELSE IF IsConstant(heap, args[1]) = IsConstant(heap, args[2])
  THEN (IF args[1] > args[2] THEN <<args[2], args[1]>> ELSE args)
  ELSE IF IsConstant(heap, args[2]) THEN <<args[2], args[1]>>
  ELSE args

\* what Module::op does with a non-constant operator: return a node it has,
\* return a constant, call op again (with a constant created first for the
\* argument at), fall through to _ops[op], or dereference a null pointer
Ret(p) ==
  [do |-> "return", ptr |-> p]

RetConstant(bits) ==
  [do |-> "constant", bits |-> bits]

RetOp(kind, args) ==
  [do |-> "op", kind |-> kind, args |-> args]

RetOpConstant(kind, args, i, bits) ==
  [do |-> "op_constant", kind |-> kind, args |-> args, at |-> i, bits |-> bits]

Break ==
  [do |-> "break"]

NullDeref ==
  [do |-> "undefined"]

\* Module::op, case Op::Kind::Concat
PeepholeConcat(heap, args) ==
  LET op_high == heap[args[1]]
      op_low == heap[args[2]]
  IN IF /\ IsOp(heap, args[1], "Slice")
        /\ IsOp(heap, args[2], "Slice")
        /\ op_high.args[1] = op_low.args[1]
        /\ IsConstant(heap, op_low.args[2])
        /\ IsConstant(heap, op_high.args[2])
        /\ as_uint64(heap[op_low.args[2]].value)
             + as_uint64(heap[op_low.args[3]].value)
           = as_uint64(heap[op_high.args[2]].value)
     THEN RetOpConstant("Slice", <<op_low.args[1], op_low.args[2], 0>>, 3,
                        from_uint(as_uint64(heap[op_high.args[3]].value)
                                  + as_uint64(heap[op_low.args[3]].value)))
     ELSE Break

\* Module::op, case Op::Kind::Slice
PeepholeSlice(heap, args) ==
  LET constant_offset == IsConstant(heap, args[2])
      offset == as_uint64(heap[args[2]].value)
      width == as_uint64(heap[args[3]].value)
      op == heap[args[1]]
  IN IF constant_offset /\ is_zero(heap[args[2]].value)
        /\ width = heap[args[1]].width
     THEN Ret(args[1])
     ELSE IF IsOp(heap, args[1], "Concat")
     THEN IF ~constant_offset THEN Break
          ELSE IF offset + width <= heap[op.args[2]].width
          THEN RetOp("Slice", <<op.args[2], args[2], args[3]>>)
          ELSE IF offset >= heap[op.args[2]].width
          THEN RetOpConstant("Slice", <<op.args[1], 0, args[3]>>, 2,
                             from_uint(offset - heap[op.args[2]].width))
          ELSE Break
     ELSE IF IsOp(heap, args[1], "Slice")
     THEN IF ~IsConstant(heap, op.args[2]) THEN Break
          ELSE IF ~constant_offset THEN NullDeref
          ELSE RetOpConstant("Slice", <<op.args[1], 0, args[3]>>, 2,
                             from_uint(offset + as_uint64(heap[op.args[2]].value)))
     ELSE Break

\* a switch that rewrites nothing
PeepholeNothing(heap, kind, args) ==
  Break

\* Module::op, the switch over the kind of a non-constant operator
Peephole(heap, kind, args) ==
  LET zero(i) == IsConstant(heap, args[i]) /\ is_zero(heap[args[i]].value)
      ones(i) == IsConstant(heap, args[i]) /\ is_all_ones(heap[args[i]].value)
  IN CASE kind = "And" ->
            IF args[1] = args[2] THEN Ret(args[1])
            ELSE IF zero(1) THEN Ret(args[1])
            ELSE IF ones(1) THEN Ret(args[2])
            ELSE Break
       [] kind = "Or" ->
            IF args[1] = args[2] THEN Ret(args[1])
            ELSE IF zero(1) THEN Ret(args[2])
            ELSE IF ones(1) THEN Ret(args[1])
            ELSE Break
       [] kind = "Xor" ->
            IF args[1] = args[2] THEN RetConstant(BitString(heap[args[1]].width))
            ELSE IF zero(1) THEN Ret(args[2])
            ELSE IF ones(1) THEN RetOp("Not", <<args[2]>>)
            ELSE Break
       [] kind = "Not" ->
            IF IsOp(heap, args[1], "Not") THEN Ret(heap[args[1]].args[1])
            ELSE Break
       [] kind = "Add" ->
            IF zero(1) THEN Ret(args[2]) ELSE Break
       [] kind = "Sub" ->
            IF args[1] = args[2] THEN RetConstant(BitString(heap[args[1]].width))
            ELSE IF zero(2) THEN Ret(args[1])
            ELSE Break
       [] kind = "Mul" -> Break
       [] kind = "Eq" ->
            IF args[1] = args[2] THEN RetConstant(from_bool(TRUE))
            ELSE IF heap[args[2]].width = 1 /\ IsConstant(heap, args[1])
            THEN (IF zero(1) THEN RetOp("Not", <<args[2]>>) ELSE Ret(args[2]))
            ELSE Break
       [] kind = "LtU" ->
            IF args[1] = args[2] THEN RetConstant(from_bool(FALSE))
            ELSE IF zero(2) THEN RetConstant(from_bool(FALSE))
            ELSE Break
       [] kind = "LtS" ->
            IF args[1] = args[2] THEN RetConstant(from_bool(FALSE)) ELSE Break
       [] kind = "LeU" ->
            IF args[1] = args[2] THEN RetConstant(from_bool(TRUE))
            ELSE IF zero(1) THEN RetConstant(from_bool(TRUE))
            ELSE Break
       [] kind = "LeS" ->
            IF args[1] = args[2] THEN RetConstant(from_bool(TRUE)) ELSE Break
       [] kind = "Concat" -> PeepholeConcat(heap, args)
       [] kind = "Slice" -> PeepholeSlice(heap, args)
       [] kind \in {"Shl", "ShrU"} ->
            IF zero(1) THEN Ret(args[1])
            ELSE IF zero(2) THEN Ret(args[1])
            ELSE Break
       [] kind = "ShrS" ->
            IF zero(1) \/ ones(1) THEN Ret(args[1])
            ELSE IF zero(2) THEN Ret(args[1])
            ELSE Break
       [] OTHER ->
            IF args[2] = args[3] THEN Ret(args[2])
            ELSE IF IsConstant(heap, args[1])
            THEN (IF at(heap[args[1]].value, 0) THEN Ret(args[2]) ELSE Ret(args[3]))
            ELSE Break

\* Module::op
RECURSIVE ModuleOp(_, _, _)
ModuleOp(h, kind, args) ==
  LET Rewrite(d, canonical) ==
        CASE d.do = "return" -> {Return(h, d.ptr)}
          [] d.do = "constant" -> constant(h, d.bits)
          [] d.do = "op" -> ModuleOp(h, d.kind, d.args)
          [] d.do = "op_constant" ->
               LET Then(c) ==
                     ModuleOp(c, d.kind, [d.args EXCEPT ![d.at] = c.res])
               IN Each(Then, constant(h, d.bits))
          [] d.do = "undefined" -> {Throw(h, "undefined")}
          [] OTHER ->
               Hashcons(h, "ops",
                        Op(kind, canonical, infer_width(h.mod.heap, kind, canonical)))
      Fold(bits) ==
        IF bits = Thrown THEN {Throw(h, "Error")} ELSE constant(h, bits)
      Build(canonical) ==
        IF infer_width(h.mod.heap, kind, canonical) < 0 THEN {Throw(h, "Error")}
        ELSE IF AllConstant(h.mod.heap, canonical)
        THEN Each(Fold, {OpEval(kind, [i \in DOMAIN canonical |->
                                         h.mod.heap[canonical[i]].value])})
        ELSE Rewrite(Peephole(h.mod.heap, kind, canonical), canonical)
  IN Each(Build, {Canonical(h.mod.heap, kind, args)})

\* a trace that follows the arguments of operators only
EdgesOfOps(node) ==
  IF node.t = "Op" THEN Range(node.args) ELSE {}

\* the pointers Module::trace follows from a node: the arguments of an Op,
\* clock and next of a Reg, memory and address of a Read, the four fields of
\* every write of a Memory
Edges(node) ==
  CASE node.t = "Op" -> Range(node.args)
    [] node.t = "Reg" -> {node.clock, node.next}
    [] node.t = "Read" -> {node.memory, node.address}
    [] node.t = "Memory" ->
         UNION {{w.clock, w.address, w.enable, w.value} : w \in Range(node.writes)}
    [] OTHER -> {}

\* Module::trace from every pointer of todo
RECURSIVE trace(_, _, _)
trace(heap, todo, reached) ==
  IF todo = {} THEN reached
  ELSE LET Visit(p) ==
             IF p \in reached THEN trace(heap, todo \ {p}, reached)
             ELSE trace(heap, (todo \ {p}) \cup Edges(heap[p]), reached \cup {p})
       IN Visit(CHOOSE q \in todo : TRUE)

\* Module::gc: the registers, memories (with the Reads they own), unknowns,
\* operators and constants that were not reached are deleted
ModuleGc(m) ==
  LET Sweep(reached) ==
        LET Reached(p) == p \in reached
            Unreached(list) == {p \in Range(list) : p \notin reached}
            Deleted(p) ==
              \/ p \in Unreached(m.regs)
              \/ p \in Unreached(m.memories)
              \/ \E k \in Unreached(m.memories) : p \in Range(m.heap[k].reads)
              \/ p \in Unreached(m.unknowns)
              \/ p \in m.ops \ reached
              \/ p \in m.constants \ reached
        IN [m EXCEPT !.heap = [p \in DOMAIN m.heap |-> IF Deleted(p) THEN Freed ELSE m.heap[p]],
                     !.regs = SelectSeq(@, Reached),
                     !.memories = SelectSeq(@, Reached),
                     !.unknowns = SelectSeq(@, Reached),
                     !.ops = @ \cap reached,
                     !.constants = @ \cap reached]
  IN Bind(Sweep, trace(m.heap, Range(m.outputs), {}))

\* ------------------------------------------------------------------ state

VARIABLES
  \* the module the Simulation was constructed on
  circ,
  \* Simulation::_regs, _memories, _prev_clocks, _outputs
  regs, memories, prev_clocks, outputs,
  \* "idle", or "running" inside the loop of update(const Values&)
  pc,
  \* the Values the running (or the last) update call was given
  initial,
  \* what the last update call threw: "none", "Error" (hdl::Error) or
  \* "out_of_range" (std::out_of_range)
  err,
  \* history: the number of update_step calls of the running (or the last)
  \* update call, up to MaxSteps; 0 when none was made since construction or reset
  steps,
  \* history: the clock input of the last update call that reached the loop
  lastClock,
  \* history: the rising edges of the clock input since construction or reset,
  \* modulo 2^CounterWidth (Counter only)
  edges,
  \* history: per memory cell the value of the last write the inputs requested
  \* on a rising clock edge with enable set, else the initial value (Ram, RamWrap)
  shadow,
  \* history: "armed" after a reset that follows an update which returned with
  \* the clock input at 1, "held" when the next update has the clock still at 1
  afterReset

simvars ==
  <<circ, regs, memories, prev_clocks, outputs, pc, initial, err, steps,
    lastClock, edges, shadow, afterReset>>

\* ----------------------------------------------------------- module state

VARIABLES
  \* the hdl::Module under construction: the node at every address, the tables
  \* _constants and _ops, the lists _regs, _memories, _inputs, _outputs, _unknowns
  mod,
  \* what the last call on the module threw: "none", "Error" (hdl::Error), or
  \* "undefined" when it dereferenced a null pointer
  thrown,
  \* history: a gc call has deleted a node
  swept,
  \* history: the op call a client of OpSpec made: its kind, its arguments, the
  \* pointer it returned and the module it was made on
  last,
  \* Flattening::_values: the bits recorded for every value that is defined
  \* or flattened
  flattening,
  \* the CnfBuilder: its Cnf and _values, the literals of every value that is
  \* free or built
  builder

modvars ==
  <<mod, thrown, swept, last, flattening, builder>>

\* no op call was recorded
NoCall ==
  [kind |-> "none"]

vars ==
  <<simvars, modvars>>

\* no module is under construction
NoModule ==
  /\ mod = NewModule /\ thrown = "none" /\ swept = FALSE /\ last = NoCall
  /\ flattening = <<>> /\ builder = <<>>

\* no simulation was constructed
NoSimulation ==
  /\ circ = "none" /\ regs = <<>> /\ memories = <<>> /\ prev_clocks = <<>>
  /\ outputs = <<>> /\ pc = "idle" /\ initial = <<>> /\ err = "none"
  /\ steps = 0 /\ lastClock = FALSE /\ edges = 0 /\ shadow = <<>>
  /\ afterReset = "no"

M ==
  ModuleOf(circ)

Sim ==
  [regs |-> regs, memories |-> memories, prev_clocks |-> prev_clocks,
   outputs |-> outputs]

\* the clocks of the registers and of the write ports: the keys of _prev_clocks
Clocks(m) ==
  {m.nodes[m.regs[i]].clock : i \in DOMAIN m.regs}
    \cup UNION {{m.memories[k].writes[j].clock : j \in DOMAIN m.memories[k].writes} :
                  k \in DOMAIN m.memories}

\* Simulation::reset: _regs[it] = reg->initial, _memories[memory] = MemoryData(memory)
ResetRegs(m) ==
  [i \in DOMAIN m.regs |-> m.nodes[m.regs[i]].initial]

ResetMemories(m) ==
  [k \in DOMAIN m.memories |-> MemoryData(m.memories[k])]

\* the position of the clock among the inputs of a module
ClockInput(name) ==
  CASE name = "Pass" -> 2
    [] name = "Lazy" -> 4
    [] OTHER -> 1

\* the content of the cells of memory k, a missing cell reading as zero
Content(m, k, data) ==
  [i \in 0..(m.memories[k].size - 1) |->
     IF i \in DOMAIN data THEN data[i] ELSE ZeroBits(m.memories[k].width)]

InitialContent(m) ==
  IF m.memories = <<>> THEN <<>> ELSE Content(m, 1, MemoryData(m.memories[1]))

\* Simulation::Simulation: prev_clocks all false, then reset()
SimInit(name) ==
  LET m == ModuleOf(name)
  IN /\ circ = name
     /\ regs = ResetRegs(m)
     /\ memories = ResetMemories(m)
     /\ prev_clocks = [c \in Clocks(m) |-> FALSE]
     /\ outputs = [i \in DOMAIN m.outputs |-> EmptyBits]
     /\ pc = "idle"
     /\ initial = <<>>
     /\ err = "none"
     /\ steps = 0
     /\ lastClock = FALSE
     /\ edges = 0
     /\ shadow = InitialContent(m)
     /\ afterReset = "no"
     /\ NoModule

Init ==
  \E name \in ModuleNames : SimInit(name)

\* ----------------------------------------------------------------- inputs

AllBits(w) ==
  {Bits(w, v) : v \in 0..(Pow2(w) - 1)}

Bit ==
  AllBits(1)

\* the input vectors update is called with; Pass is also called with too few
\* and too many values and with values of a wrong width
VectorInputs(name) ==
  CASE name \in {"Counter", "Swap", "Osc", "Ripple"} -> {<<c>> : c \in Bit}
    [] name = "Ram" ->
         {<<c, a, v, e>> : c \in Bit, a \in AllBits(RamAddrWidth), v \in Bit, e \in Bit}
    [] name = "RamWrap" ->
         {<<c, a, v, e>> : c \in Bit, a \in AllBits(AddrWidth), v \in Bit, e \in Bit}
    [] name = "TwoPort" -> {<<c, v, sel>> : c \in Bit, v \in Bit, sel \in Bit}
    [] name = "Pass" ->
         {<<a, k>> : a \in AllBits(1) \cup AllBits(2) \cup AllBits(3), k \in Bit}
           \cup {<<a>> : a \in AllBits(2)}
           \cup {<<a, k, k>> : a \in AllBits(2), k \in Bit}
    [] OTHER -> {<<c, d, a, k>> : c \in Bit, d \in Bit, a \in AllBits(2), k \in Bit}

\* the name -> BitString maps update is called with
MapInputs(name) ==
  CASE name = "Counter" -> {[clock |-> c] : c \in Bit}
    [] name = "Pass" ->
         {[a |-> a, k |-> k] : a \in AllBits(1) \cup AllBits(2), k \in Bit}
           \cup {[a |-> a, x |-> k] : a \in AllBits(2), k \in Bit}
           \cup {[a |-> a] : a \in AllBits(2)}
    [] OTHER -> {}

\* ---------------------------------------------------------------- history

WriteRequested(values) ==
  circ \in {"Ram", "RamWrap"} /\ at(values[1], 0) /\ ~lastClock /\ at(values[4], 0)

\* the history variables at an update call that reaches the loop
Observe(values) ==
  LET clock == at(values[ClockInput(circ)], 0)
  IN /\ lastClock' = clock
     /\ edges' = IF circ = "Counter" /\ clock /\ ~lastClock
                 THEN (edges + 1) % Pow2(CounterWidth) ELSE edges
     /\ shadow' = IF WriteRequested(values)
                  THEN [shadow EXCEPT ![as_uint64(values[2]) % M.memories[1].size] =
                                         values[3]]
                  ELSE shadow
     /\ afterReset' = IF afterReset = "armed" /\ clock THEN "held" ELSE "no"

\* ---------------------------------------------------------------- actions

\* Simulation::update(const std::vector<BitString>&) up to the loop
UpdateVectorCall(inputs) ==
  /\ pc = "idle"
  /\ IF Len(inputs) # Len(M.inputs)
     THEN /\ err' = "Error"
          /\ afterReset' = "no"
          /\ UNCHANGED <<pc, initial, steps, lastClock, edges, shadow>>
     ELSE /\ initial' = [v \in {M.inputs[i] : i \in DOMAIN inputs} |->
                           inputs[CHOOSE i \in DOMAIN inputs : M.inputs[i] = v]]
          /\ pc' = "running"
          /\ err' = "none"
          /\ steps' = 0
          /\ Observe(inputs)
  /\ UNCHANGED <<circ, regs, memories, prev_clocks, outputs>>

\* the call on a simulation whose module is not under construction
UpdateVector(inputs) ==
  /\ UpdateVectorCall(inputs)
  /\ UNCHANGED modvars

\* Simulation::update(const std::unordered_map<std::string, BitString>&) up to
\* the loop
UpdateMapCall(inputs) ==
  /\ pc = "idle"
  /\ IF Cardinality(DOMAIN inputs) # Len(M.inputs)
     THEN /\ err' = "Error"
          /\ afterReset' = "no"
          /\ UNCHANGED <<pc, initial, steps, lastClock, edges, shadow>>
     ELSE IF \E i \in DOMAIN M.inputs : M.nodes[M.inputs[i]].name \notin DOMAIN inputs
     THEN /\ err' = "out_of_range"
          /\ afterReset' = "no"
          /\ UNCHANGED <<pc, initial, steps, lastClock, edges, shadow>>
     ELSE /\ initial' = [v \in {M.inputs[i] : i \in DOMAIN M.inputs} |->
                           inputs[M.nodes[v].name]]
          /\ pc' = "running"
          /\ err' = "none"
          /\ steps' = 0
          /\ Observe([i \in DOMAIN M.inputs |-> inputs[M.nodes[M.inputs[i]].name]])
  /\ UNCHANGED <<circ, regs, memories, prev_clocks, outputs>>

UpdateMap(inputs) ==
  /\ UpdateMapCall(inputs)
  /\ UNCHANGED modvars

\* a loop that returns after its first update_step
UpdateLoopOnce(r) ==
  "idle"

\* Simulation::update(const Values&): rerun update_step while it returns true;
\* an update_step that throws ends the call
UpdateLoop(r) ==
  IF r.err = "none" /\ r.changed THEN "running" ELSE "idle"

\* a reset that also forgets the clocks it has seen
ResetPrevClocksCleared(prev) ==
  [c \in DOMAIN prev |-> FALSE]

\* Simulation::reset assigns _regs and _memories only: _prev_clocks stays
ResetPrevClocks(prev) ==
  prev

\* one iteration of the loop of Simulation::update(const Values&): an
\* update_step, and the return when nothing changed
UpdateStep ==
  /\ pc = "running"
  /\ \E r \in {update_step(M, Sim, initial)} :
        /\ regs' = r.regs
        /\ memories' = r.memories
        /\ prev_clocks' = r.prev_clocks
        /\ outputs' = r.outputs
        /\ err' = r.err
        /\ pc' = UpdateLoop(r)
  /\ steps' = IF steps < MaxSteps THEN steps + 1 ELSE steps
  /\ UNCHANGED <<circ, initial, lastClock, edges, shadow, afterReset>>
  /\ UNCHANGED modvars

\* Simulation::reset
Reset ==
  /\ pc = "idle"
  /\ regs' = ResetRegs(M)
  /\ memories' = ResetMemories(M)
  /\ prev_clocks' = ResetPrevClocks(prev_clocks)
  /\ steps' = 0
  /\ edges' = 0
  /\ shadow' = InitialContent(M)
  /\ afterReset' = IF lastClock /\ err = "none" THEN "armed" ELSE "no"
  /\ UNCHANGED <<circ, outputs, pc, initial, err, lastClock>>
  /\ UNCHANGED modvars

Next ==
  \/ \E inputs \in VectorInputs(circ) : UpdateVector(inputs)
  \/ \E inputs \in MapInputs(circ) : UpdateMap(inputs)
  \/ UpdateStep
  \/ Reset

Spec ==
  Init /\ [][Next]_vars

\* the circuits with clocked state only
ClockedCircuits ==
  {"Counter", "Ram", "Swap", "TwoPort", "Osc", "Ripple"}

ClockedInit ==
  \E name \in ClockedCircuits : SimInit(name)

\* the loop of update(const Values&) keeps running once it was entered
FairSpec ==
  ClockedInit /\ [][Next]_vars /\ WF_vars(UpdateStep)

\* ----------------------------------------------------------- module calls

\* the BitStrings, input declarations, operator kinds and argument widths the
\* client of the module uses
ClientBits ==
  {Bits(1, 0), Bits(1, 1), Bits(2, 0)}

ClientInputs ==
  {<<"a", 1>>}

Kinds ==
  {"And", "Xor", "Not", "Sub"}

ArgWidths ==
  1..2

\* Op::infer_width, the argument count it expects
ArgCount(kind) ==
  IF kind = "Not" THEN 1 ELSE IF kind \in {"Slice", "Select"} THEN 3 ELSE 2

\* the live values the client can pass as an argument
Values(m) ==
  {p \in Ptr : /\ m.heap[p].t \in {"Input", "Constant", "Op", "Unknown", "Reg", "Read"}
               /\ m.heap[p].width \in ArgWidths}

ArgLists(m, kind) ==
  [1..ArgCount(kind) -> Values(m)]

\* the process is running: no call had undefined behaviour
Alive ==
  thrown # "undefined"

\* the call returned or threw
Called(h) ==
  /\ mod' = h.mod
  /\ thrown' = h.err
  /\ UNCHANGED <<swept, last, flattening, builder, simvars>>

ModInput(decl) ==
  /\ Alive
  /\ mod.inputs = <<>>
  /\ \E h \in input(Call(mod), decl[1], decl[2]) : Called(h)

ModConstant(bit_string) ==
  /\ Alive
  /\ \E h \in constant(Call(mod), bit_string) : Called(h)

ModOp(kind, args) ==
  /\ Alive
  /\ \E h \in ModuleOp(Call(mod), kind, args) : Called(h)

ModOutput(value) ==
  /\ Alive
  /\ mod.outputs = <<>>
  /\ \E h \in output(Call(mod), value) : Called(h)

ModGc ==
  /\ Alive
  /\ \E m \in {ModuleGc(mod)} :
       /\ mod' = m
       /\ swept' = (swept \/ m.heap # mod.heap)
  /\ thrown' = "none"
  /\ UNCHANGED <<last, flattening, builder, simvars>>

ModInit ==
  NoModule /\ NoSimulation

ModNext ==
  \/ \E decl \in ClientInputs : ModInput(decl)
  \/ \E bit_string \in ClientBits : ModConstant(bit_string)
  \/ \E kind \in Kinds : \E args \in ArgLists(mod, kind) : ModOp(kind, args)
  \/ \E value \in Values(mod) : ModOutput(value)
  \/ ModGc

ModSpec ==
  ModInit /\ [][ModNext]_vars

\* ------------------------------------------------------------ operator calls

\* the number of addresses that are free when the client makes its op call
FreeCells == 2

\* The calls a client makes to prepare the module: three inputs, the constants
\* 0, 1 and ~0 of width 2 and 0, 1 of width 1, and the operators Not(x),
\* Slice(x, 0, 1), Slice(x, 1, 1) and Concat(x, y). An argument names the call
\* whose result it is.
Script ==
  <<[f |-> "input", name |-> "x", width |-> 2],
    [f |-> "input", name |-> "y", width |-> 2],
    [f |-> "input", name |-> "b", width |-> 1],
    [f |-> "constant", bits |-> Bits(2, 0)],
    [f |-> "constant", bits |-> Bits(2, 1)],
    [f |-> "constant", bits |-> Bits(2, 3)],
    [f |-> "constant", bits |-> Bits(1, 0)],
    [f |-> "constant", bits |-> Bits(1, 1)],
    [f |-> "op", kind |-> "Not", args |-> <<1>>],
    [f |-> "op", kind |-> "Slice", args |-> <<1, 4, 5>>],
    [f |-> "op", kind |-> "Slice", args |-> <<1, 5, 5>>],
    [f |-> "op", kind |-> "Concat", args |-> <<1, 2>>]>>

\* operator new hands out the addresses in ascending or in descending order
AllocationOrders ==
  {"ascending", "descending"}

Allocated(outcomes, order) ==
  CHOOSE h \in outcomes :
    \A g \in outcomes : IF order = "ascending" THEN h.res <= g.res ELSE h.res >= g.res

\* one call of the script; ptrs holds the results of the calls before it
ScriptCall(m, call, ptrs) ==
  CASE call.f = "input" -> input(Call(m), call.name, call.width)
    [] call.f = "constant" -> constant(Call(m), call.bits)
    [] call.f = "op" ->
         ModuleOp(Call(m), call.kind, [i \in DOMAIN call.args |-> ptrs[call.args[i]]])
    [] call.f = "unknown" -> unknown(Call(m), call.width)
    [] call.f = "reg" -> reg(Call(m), call.initial, ptrs[call.clock])
    [] call.f = "next" -> AssignNext(Call(m), ptrs[call.reg], ptrs[call.value])
    [] call.f = "memory" -> memory(Call(m), call.width, call.size)
    [] call.f = "read" -> MemoryRead(Call(m), ptrs[call.memory], ptrs[call.address])
    [] OTHER ->
         MemoryWrite(Call(m), ptrs[call.memory], ptrs[call.clock], ptrs[call.address],
                     ptrs[call.enable], ptrs[call.value])

\* the module after the calls i.. of a script
RECURSIVE Prepared(_, _, _, _, _)
Prepared(script, m, ptrs, i, order) ==
  IF i > Len(script) THEN m
  ELSE LET Rest(h) == Prepared(script, h.mod, Append(ptrs, h.res), i + 1, order)
       IN Bind(Rest, Allocated(ScriptCall(m, script[i], ptrs), order))

\* Module::Module with room for cells nodes
Blank(cells) ==
  [NewModule EXCEPT !.heap = [p \in 1..cells |-> Freed]]

OpKinds ==
  {"And", "Or", "Xor", "Not", "Add", "Sub", "Mul", "Eq", "LtU", "LtS", "LeU",
   "LeS", "Concat", "Slice", "Shl", "ShrU", "ShrS", "Select"}

\* the values of the module: everything a client holds a pointer to
Nodes(m) ==
  {p \in DOMAIN m.heap : m.heap[p].t # "Freed"}

\* the client calls op once, with any kind and any of its values as arguments
OpCall(kind, args) ==
  /\ last = NoCall
  /\ \E h \in ModuleOp(Call(mod), kind, args) :
       /\ mod' = h.mod
       /\ thrown' = h.err
       /\ last' = [kind |-> kind, args |-> args, res |-> h.res, mod |-> mod]
  /\ UNCHANGED <<swept, flattening, builder, simvars>>

OpInit ==
  /\ \E order \in AllocationOrders : mod = Prepared(Script, Blank(Len(Script) + FreeCells), <<>>, 1, order)
  /\ thrown = "none" /\ swept = FALSE /\ last = NoCall
  /\ flattening = <<>> /\ builder = <<>>
  /\ NoSimulation

OpNext ==
  \E kind \in OpKinds : \E args \in [1..ArgCount(kind) -> Nodes(mod)] :
    OpCall(kind, args)

OpSpec ==
  OpInit /\ [][OpNext]_vars

\* -------------------------------------------------------- garbage collection

\* the number of outputs the client declares at most
MaxOutputs == 2

\* The calls a client makes to prepare the module: inputs clock and a, the
\* constant 1, an Unknown u, Not(a), a register with next = Not(a), a register
\* that keeps its own value, a memory with the read port read(a) and a write
\* port that stores the second register, Xor(u, read(a)) and a second Unknown.
GcScript ==
  <<[f |-> "input", name |-> "clock", width |-> 1],
    [f |-> "input", name |-> "a", width |-> 1],
    [f |-> "constant", bits |-> Bits(1, 1)],
    [f |-> "unknown", width |-> 1],
    [f |-> "op", kind |-> "Not", args |-> <<2>>],
    [f |-> "reg", initial |-> Bits(1, 0), clock |-> 1],
    [f |-> "next", reg |-> 6, value |-> 5],
    [f |-> "reg", initial |-> Bits(1, 0), clock |-> 1],
    [f |-> "memory", width |-> 1, size |-> 2],
    [f |-> "read", memory |-> 9, address |-> 2],
    [f |-> "write", memory |-> 9, clock |-> 1, address |-> 2, enable |-> 3,
     value |-> 8],
    [f |-> "op", kind |-> "Xor", args |-> <<4, 10>>],
    [f |-> "unknown", width |-> 1],
    [f |-> "read", memory |-> 9, address |-> 5]>>

\* the values of the module: the nodes a client can name as an output
ValueNodes(m) ==
  {p \in Nodes(m) : m.heap[p].t # "Memory"}

\* the client declares an output
GcOutput(value) ==
  /\ last = NoCall
  /\ Len(mod.outputs) < MaxOutputs
  /\ \E h \in output(Call(mod), value) : Called(h)

\* the client calls gc once
GcCall ==
  /\ last = NoCall
  /\ \E m \in {ModuleGc(mod)} :
       /\ mod' = m
       /\ swept' = (swept \/ m.heap # mod.heap)
  /\ thrown' = "none"
  /\ last' = [kind |-> "gc", mod |-> mod]
  /\ UNCHANGED <<flattening, builder, simvars>>

GcInit ==
  /\ \E order \in AllocationOrders :
       mod = Prepared(GcScript, Blank(Len(GcScript)), <<>>, 1, order)
  /\ thrown = "none" /\ swept = FALSE /\ last = NoCall
  /\ flattening = <<>> /\ builder = <<>>
  /\ NoSimulation

GcNext ==
  \/ \E value \in ValueNodes(mod) : GcOutput(value)
  \/ GcCall

GcSpec ==
  GcInit /\ [][GcNext]_vars

\* ------------------------------------------------------ reference semantics

\* The value a node denotes over given register values, memory contents and
\* input values, with no values map: Thrown where eval throws.
RECURSIVE Sem(_, _, _, _, _)
Sem(m, v, rg, mm, ini) ==
  LET n == m.nodes[v]
  IN CASE n.t = "Input" -> IF v \in DOMAIN ini THEN ini[v] ELSE Thrown
       [] n.t = "Reg" -> rg[CHOOSE i \in DOMAIN m.regs : m.regs[i] = v]
       [] n.t = "Constant" -> n.value
       [] n.t = "Unknown" -> Thrown
       [] n.t = "Read" ->
            LET a == Sem(m, n.address, rg, mm, ini)
                r == Content(m, n.memory, mm[n.memory])[a.value % m.memories[n.memory].size]
            IN IF a = Thrown \/ r.width # n.width THEN Thrown ELSE r
       [] n.t = "Op" /\ n.kind = "Select" ->
            LET c == Sem(m, n.args[1], rg, mm, ini)
                r == Sem(m, IF at(c, 0) THEN n.args[2] ELSE n.args[3], rg, mm, ini)
            IN IF c = Thrown \/ c.width = 0 THEN Thrown
               ELSE IF r.width # n.width THEN Thrown ELSE r
       [] OTHER ->
            LET xs == [i \in DOMAIN n.args |-> Sem(m, n.args[i], rg, mm, ini)]
                r == OpEval(n.kind, xs)
            IN IF \E i \in DOMAIN xs : xs[i] = Thrown THEN Thrown
               ELSE IF r.width # n.width THEN Thrown ELSE r

\* the denotation of a node in the current state
Now(v) ==
  Sem(M, v, regs, memories, initial)

\* a clock that denotes true and whose prev_clocks entry is false
Edge(c) ==
  Now(c) # Thrown /\ Now(c).width > 0 /\ at(Now(c), 0) /\ ~prev_clocks[c]

RegIndex ==
  DOMAIN M.regs

RegNode(i) ==
  M.nodes[M.regs[i]]

\* an update_step that returns (does not throw)
StepReturns ==
  UpdateStep /\ err' = "none"

\* an update call that reached the loop has returned without an error
Returned ==
  pc = "idle" /\ steps > 0 /\ err = "none"

\* -------------------------------------------------------------------- C1

\* C1: in the Counter module, whenever an update call has returned, the
\* counter register and the output equal the number of rising edges of the
\* clock input seen so far (the first call with clock = 1 counts) modulo
\* 2^CounterWidth, so the output shows the increment at the end of the very
\* call in which the edge occurs.
C1_CounterCountsEdges ==
  (circ = "Counter" /\ pc = "idle")
    => /\ err = "none"
       /\ regs[1] = Bits(CounterWidth, edges)
       /\ steps > 0 => outputs[1] = Bits(CounterWidth, edges)

\* an update call with a rising edge has returned and the count wrapped to 0
C1_Witness ==
  /\ circ = "Counter" /\ Returned
  /\ lastClock /\ steps = 2 /\ edges = 0 /\ outputs[1] = ZeroBits(CounterWidth)

\* -------------------------------------------------------------------- C2

\* C2: in the Ram module (one write port, every address below the size),
\* between update calls every cell holds the value of the last write that
\* fired at its address (rising clock edge with enable set), or its initial
\* value if none did, so a write changes no other cell; and the output of a
\* returned update is that value at the address input.
C2_RamHoldsLastWrite ==
  (circ = "Ram" /\ pc = "idle")
    => /\ err = "none"
       /\ Content(M, 1, memories[1]) = shadow
       /\ steps > 0 => outputs[1] = shadow[as_uint64(initial[2])]

\* a write has fired in the returned call, the cell read differs from its
\* initial value and the other cell still holds its initial value 1
C2_Witness ==
  /\ circ = "Ram" /\ Returned /\ steps = 2
  /\ as_uint64(initial[2]) = 0 /\ outputs[1] = Bits(1, 1)
  /\ Content(M, 1, memories[1])[1] = Bits(1, 1)

\* -------------------------------------------------------------------- C3

\* what an update_step that returns makes of the registers: eval(reg.next)
\* where the clock rises, the stored value elsewhere
EdgeTriggeredRegs ==
  [i \in RegIndex |->
     IF Edge(RegNode(i).clock) THEN Now(RegNode(i).next) ELSE regs[i]]

\* C3: every entry of prev_clocks is false on a fresh Simulation; in every
\* update sub-step that returns, a register's stored value is replaced by
\* eval(reg.next) if and only if its clock evaluates to 1 and the prev_clocks
\* entry of that clock is 0, otherwise it is unchanged; and the sub-step leaves
\* in prev_clocks the value each clock evaluated to in it.
C3_EdgeTriggered ==
  /\ \A c \in DOMAIN prev_clocks : ~prev_clocks[c]
  /\ [][StepReturns =>
          /\ regs' = EdgeTriggeredRegs
          /\ prev_clocks' = [c \in DOMAIN prev_clocks |-> at(Now(c), 0)]]_vars

\* the second sub-step of an update of Ripple: a keeps its value although its
\* clock is 1 (prev_clocks holds 1), b was replaced on the rising edge of a
C3_Witness ==
  /\ circ = "Ripple" /\ pc = "running" /\ steps = 2 /\ err = "none"
  /\ regs = <<Bits(1, 1), Bits(1, 1)>>
  /\ prev_clocks[1] /\ prev_clocks[2]

\* -------------------------------------------------------------------- C4

\* the write ports of memory k applied in order to its cells, every clock,
\* enable, address and value taken from the state before the sub-step
RECURSIVE SnapshotWrites(_, _, _)
SnapshotWrites(k, j, cells) ==
  IF j > Len(M.memories[k].writes) THEN cells
  ELSE LET write == M.memories[k].writes[j]
       IN SnapshotWrites(k, j + 1,
            IF Edge(write.clock) /\ at(Now(write.enable), 0)
            THEN [cells EXCEPT ![as_uint64(Now(write.address)) % M.memories[k].size] =
                                  Now(write.value)]
            ELSE cells)

\* C4: in every update sub-step that returns, every register's next value and
\* every write port's address, enable and value are computed from the register
\* values and memory contents as they were before the sub-step.
C4_SnapshotSemantics ==
  [][StepReturns =>
       /\ regs' = EdgeTriggeredRegs
       /\ \A k \in DOMAIN M.memories :
            Content(M, k, memories'[k])
              = SnapshotWrites(k, 1, Content(M, k, memories[k]))]_vars

\* -------------------------------------------------------------------- C5

\* whether a node is a function of module inputs and constants only
RECURSIVE InputsOnly(_, _)
InputsOnly(m, v) ==
  LET n == m.nodes[v]
  IN CASE n.t \in {"Input", "Constant"} -> TRUE
       [] n.t = "Op" -> \A i \in DOMAIN n.args : InputsOnly(m, n.args[i])
       [] OTHER -> FALSE

InputClocked(m) ==
  \A c \in Clocks(m) : InputsOnly(m, c)

\* C5 as stated: every update call returns.
C5_UpdateTerminates ==
  (pc = "running") ~> (pc = "idle")

\* C5 amended: every update call on a module whose register and write-port
\* clocks are functions of inputs and constants only returns.
C5_UpdateTerminatesInputClocked ==
  (pc = "running" /\ InputClocked(M)) ~> (pc = "idle")

\* an update of an input-clocked module that fired an edge has returned
C5_Witness ==
  InputClocked(M) /\ Returned /\ steps = 2 /\ regs # ResetRegs(M)

\* -------------------------------------------------------------------- C6

\* the registers (and write ports) clocked by the clock input keep their
\* initial state through a held update
HeldState ==
  /\ \A i \in RegIndex :
       RegNode(i).clock = M.inputs[ClockInput(circ)] => regs[i] = RegNode(i).initial
  /\ \A k \in DOMAIN M.memories :
       Content(M, k, memories[k]) = Content(M, k, MemoryData(M.memories[k]))

\* C6: reset sets every register to reg.initial and every memory to
\* Memory.initial and leaves prev_clocks unchanged; and when the last update
\* before a reset returned with the clock input at 1, an update directly after
\* the reset with the clock still at 1 fires no edge of that clock.
C6_ResetKeepsPrevClocks ==
  /\ [][Reset => /\ regs' = ResetRegs(M)
                 /\ memories' = ResetMemories(M)
                 /\ prev_clocks' = prev_clocks]_vars
  /\ [](afterReset = "held" /\ Returned => HeldState)

\* the counter was at a non-initial value, was reset, and the update after
\* the reset, with the clock still at 1, has returned
C6_Witness ==
  /\ circ = "Counter" /\ afterReset = "held" /\ Returned
  /\ regs[1] = ZeroBits(CounterWidth) /\ outputs[1] = ZeroBits(CounterWidth)
  /\ prev_clocks[1]

\* -------------------------------------------------------------------- C7

\* an input of the last update call whose width is not the declared one
WidthMismatch ==
  \E v \in DOMAIN initial : initial[v].width # M.nodes[v].width

\* C7: an update call that supplies an input BitString of a width different
\* from the declared width of its module input fails with an error.
C7_WidthMismatchFails ==
  (pc = "idle" /\ steps > 0 /\ WidthMismatch) => err # "none"

\* -------------------------------------------------------------------- C8

\* the nodes an update_step evaluates at the top: the outputs, the clocks, the
\* next value of a register whose clock rises, and of a write port whose clock
\* rises the enable and, when it is set, the address and the value
Demanded ==
  {M.outputs[i] : i \in DOMAIN M.outputs}
    \cup Clocks(M)
    \cup {RegNode(i).next : i \in {j \in RegIndex : Edge(RegNode(j).clock)}}
    \cup UNION {UNION {IF ~Edge(M.memories[k].writes[j].clock) THEN {}
                       ELSE IF ~at(Now(M.memories[k].writes[j].enable), 0)
                       THEN {M.memories[k].writes[j].enable}
                       ELSE {M.memories[k].writes[j].enable,
                             M.memories[k].writes[j].address,
                             M.memories[k].writes[j].value} :
                         j \in DOMAIN M.memories[k].writes} :
                  k \in DOMAIN M.memories}

\* C8: an update sub-step throws exactly when a node it evaluates denotes no
\* value, where Select denotes the value of the branch its condition chooses
\* whatever the other branch is (an Unknown, an out-of-bounds Slice) and every
\* other operator needs all of its arguments.
C8_SelectIsLazy ==
  [][UpdateStep => ((err' # "none") <=> (\E v \in Demanded : Now(v) = Thrown))]_vars

\* an update of Lazy has returned with c = 1, d = 0: the output is the input a
\* although the other branch of each Select holds the Unknown or the
\* out-of-bounds Slice
C8_Witness ==
  /\ circ = "Lazy" /\ Returned
  /\ at(initial[1], 0) /\ ~at(initial[2], 0)
  /\ outputs[1] = initial[3]

\* -------------------------------------------------------------------- C9

\* C9: in the RamWrap module (fewer cells than addresses) no update raises an
\* error, a write at address a lands in cell a mod size, and a read at address
\* a returns cell a mod size.
C9_AddressWraps ==
  (circ = "RamWrap" /\ pc = "idle")
    => /\ err = "none"
       /\ Content(M, 1, memories[1]) = shadow
       /\ steps > 0 => outputs[1] = shadow[as_uint64(initial[2]) % MemSize]

\* the returned update wrote 1 at an address >= size; the cell a mod size
\* holds it and the read at a returns it
C9_Witness ==
  /\ circ = "RamWrap" /\ Returned /\ steps = 2
  /\ as_uint64(initial[2]) >= MemSize /\ initial[3] = Bits(1, 1)
  /\ Content(M, 1, memories[1])[as_uint64(initial[2]) % MemSize] = Bits(1, 1)
  /\ outputs[1] = Bits(1, 1)

\* ------------------------------------------------------------------- C10

\* the live nodes of a class
LiveNodes(t) ==
  {p \in Ptr : mod.heap[p].t = t}

\* no two distinct live Constant nodes have equal (width, value), no two
\* distinct live Op nodes have equal (kind, args), and the two tables hold
\* exactly the live nodes
HashconsUnique ==
  /\ mod.constants = LiveNodes("Constant")
  /\ mod.ops = LiveNodes("Op")
  /\ \A p, q \in LiveNodes("Constant") :
       mod.heap[p].value = mod.heap[q].value => p = q
  /\ \A p, q \in LiveNodes("Op") :
       (mod.heap[p].kind = mod.heap[q].kind /\ mod.heap[p].args = mod.heap[q].args)
         => p = q

\* constant(bs1) and then constant(bs2) return the same pointer iff bs1 and
\* bs2 have the same width and bits, and the node returned holds the bits
ConstantCallsAgree ==
  \A bs1, bs2 \in ClientBits :
    \A h1 \in constant(Call(mod), bs1) :
      /\ h1.mod.heap[h1.res] = Constant(bs1)
      /\ IF bs1 = bs2 THEN constant(Call(h1.mod), bs2) = {h1}
         ELSE \A h2 \in constant(Call(h1.mod), bs2) : h2.res # h1.res

\* op(k, xs) and then op(k, xs) again return the same pointer, and the second
\* call creates no node
OpCallsAgree ==
  \A kind \in Kinds :
    \A args \in ArgLists(mod, kind) :
      \A h1 \in ModuleOp(Call(mod), kind, args) :
        h1.err = "none" => ModuleOp(Call(h1.mod), kind, args) = {h1}

\* every live Constant is the node constant returns for its value, every live
\* Op the node op returns for its kind and arguments
LiveNodesAreReturned ==
  /\ \A p \in LiveNodes("Constant") :
       constant(Call(mod), mod.heap[p].value) = {Return(Call(mod), p)}
  /\ \A p \in LiveNodes("Op") :
       ModuleOp(Call(mod), mod.heap[p].kind, mod.heap[p].args)
         = {Return(Call(mod), p)}

\* C10: after any sequence of constant, op and gc calls no two distinct live
\* Constant nodes have equal (width, value) and no two distinct live Op nodes
\* have equal (kind, args); two calls constant(bs1), constant(bs2) return the
\* same pointer iff bs1 and bs2 have the same width and bits, and a repeated
\* op(k, xs) call returns the same pointer.
C10_HashconsInvariant ==
  Alive => HashconsUnique /\ ConstantCallsAgree /\ OpCallsAgree /\ LiveNodesAreReturned

\* a gc call has deleted a node, and a Constant and an Op are live
C10_Witness ==
  /\ swept /\ thrown = "none"
  /\ LiveNodes("Constant") # {} /\ LiveNodes("Op") # {}

\* ------------------------------------------------------------------- C11

\* the arguments of the recorded call, swapped
Swapped ==
  <<last.args[2], last.args[1]>>

\* the recorded call was op(k, [a, b]) with k commutative and a, b of one width
CommutativeCall ==
  /\ is_commutative(last.kind)
  /\ mod.heap[last.args[1]].width = mod.heap[last.args[2]].width

\* the recorded call returned an Op of its kind over its two arguments
ResultIsOpOfArgs ==
  /\ thrown = "none"
  /\ IsOp(mod.heap, last.res, last.kind)
  /\ mod.heap[last.res].args \in {last.args, Swapped}

\* C11: after op(k, [a, b]) with k in {And, Or, Xor, Add, Eq} and a, b of equal
\* width has been called, the call did not fail, op(k, [b, a]) returns the same
\* pointer, and when exactly one of a, b is a Constant and the result is the Op
\* of kind k over a and b, the Constant is its argument 0.
C11_CommutativeCanonical ==
  CommutativeCall =>
    /\ thrown = "none"
    /\ ModuleOp(Call(mod), last.kind, Swapped) = {Return(Call(mod), last.res)}
    /\ (/\ ResultIsOpOfArgs
        /\ IsConstant(mod.heap, last.args[1]) # IsConstant(mod.heap, last.args[2]))
         => IsConstant(mod.heap, mod.heap[last.res].args[1])

\* op(Add, [x, c]) with c a Constant and x not was called and returned the Op
\* Add(c, x)
C11_Witness ==
  /\ last.kind = "Add"
  /\ ~IsConstant(mod.heap, last.args[1])
  /\ IsConstant(mod.heap, last.args[2])
  /\ ResultIsOpOfArgs
  /\ mod.heap[last.res].args = Swapped

\* ------------------------------------------------------------------- C12

\* the recorded call had only Constants as arguments and the widths of its
\* arguments are as Op::infer_width wants them
ConstantCall ==
  /\ last.kind # "none"
  /\ \A i \in DOMAIN last.args : last.mod.heap[last.args[i]].t = "Constant"
  /\ infer_width(last.mod.heap, last.kind, last.args) >= 0

\* Op::eval of the kind of the recorded call on the values of its arguments
Folded ==
  OpEval(last.kind, [i \in DOMAIN last.args |-> last.mod.heap[last.args[i]].value])

\* C12: an op call whose arguments are all Constants and type-check returns
\* the Constant of the table _constants whose value is Op::eval of the kind on
\* the argument values, of the width Op::infer_width gives, and creates no Op
\* node; it fails, creating nothing, exactly when Op::eval fails.
C12_ConstantFolding ==
  ConstantCall =>
    IF Folded = Thrown THEN thrown = "Error" /\ mod = last.mod
    ELSE /\ thrown = "none"
         /\ mod.heap[last.res] = Constant(Folded)
         /\ Folded.width = infer_width(last.mod.heap, last.kind, last.args)
         /\ last.res \in mod.constants
         /\ constant(Call(mod), Folded) = {Return(Call(mod), last.res)}
         /\ mod.ops = last.mod.ops
         /\ \A p \in DOMAIN mod.heap : p # last.res => mod.heap[p] = last.mod.heap[p]

\* op(Add, [1, 1]) on the Constant 1 of width 2 was called and returned a
\* Constant it created, of value 2
C12_Witness ==
  /\ last.kind = "Add"
  /\ ConstantCall
  /\ thrown = "none"
  /\ last.mod.heap[last.res] = Freed
  /\ mod.heap[last.res] = Constant(Bits(2, 2))

\* ------------------------------------------------------------------- C13

\* The table of the peephole results, read on the recorded call: the operand
\* or the constant the call must return, or nothing when no row applies. x is
\* a value that is not a Constant; for the commutative kinds the constant may
\* be either argument.
PeepholeTable ==
  LET heap == last.mod.heap
      k == last.kind
      a == last.args[1]
      b == last.args[2]
      c == last.args[3]
      w(p) == heap[p].width
      X(p) == heap[p].t # "Constant"
      Zero(p) == heap[p].t = "Constant" /\ heap[p].value.value = 0
      Ones(p) == heap[p].t = "Constant" /\ heap[p].value.value = Pow2(w(p)) - 1
      Binary == k \notin {"none", "Not", "Slice", "Select"}
      Same == Binary /\ a = b /\ X(a)
      Mixed == Binary /\ w(a) = w(b) /\ X(a) # X(b)
      cst == IF X(a) THEN b ELSE a
      var == IF X(a) THEN a ELSE b
      Shift == k \in {"Shl", "ShrU", "ShrS"}
      Operand(p) == [is |-> "operand", ptr |-> p]
      Const(bits) == [is |-> "constant", bits |-> bits]
  IN CASE k \in {"And", "Or"} /\ Same -> Operand(a)
       [] k = "And" /\ Mixed /\ Zero(cst) -> Const(ZeroBits(w(var)))
       [] k = "And" /\ Mixed /\ Ones(cst) -> Operand(var)
       [] k = "Or" /\ Mixed /\ Zero(cst) -> Operand(var)
       [] k = "Or" /\ Mixed /\ Ones(cst) -> Const(Bits(w(var), Pow2(w(var)) - 1))
       [] k \in {"Xor", "Sub"} /\ Same -> Const(ZeroBits(w(a)))
       [] k = "Xor" /\ Mixed /\ Zero(cst) -> Operand(var)
       [] k = "Not" /\ heap[a].t = "Op" /\ heap[a].kind = "Not" -> Operand(heap[a].args[1])
       [] k = "Add" /\ Mixed /\ Zero(cst) -> Operand(var)
       [] k = "Sub" /\ Mixed /\ X(a) /\ Zero(b) -> Operand(a)
       [] k \in {"Eq", "LeU", "LeS"} /\ Same -> Const(Bits(1, 1))
       [] k \in {"LtU", "LtS"} /\ Same -> Const(Bits(1, 0))
       [] k = "LtU" /\ Mixed /\ X(a) /\ Zero(b) -> Const(Bits(1, 0))
       [] k = "LeU" /\ Mixed /\ Zero(a) /\ X(b) -> Const(Bits(1, 1))
       [] Shift /\ X(a) /\ Zero(b) -> Operand(a)
       [] Shift /\ Zero(a) /\ X(b) -> Const(ZeroBits(w(a)))
       [] k = "ShrS" /\ Ones(a) /\ X(b) -> Const(Bits(w(a), Pow2(w(a)) - 1))
       [] k = "Select" /\ w(b) = w(c) /\ b = c /\ (X(a) \/ X(b)) -> Operand(b)
       [] k = "Select" /\ w(b) = w(c) /\ ~X(a) /\ w(a) = 1 /\ (X(b) \/ X(c)) ->
            Operand(IF heap[a].value.value = 1 THEN b ELSE c)
       [] OTHER -> [is |-> "nothing"]

\* C13: an op call on which a row of the peephole table applies returns the
\* operand the row names, creating nothing, or the Constant of the table
\* _constants with the value the row names, creating no Op node.
C13_PeepholeTable ==
  /\ PeepholeTable.is = "operand" =>
       thrown = "none" /\ last.res = PeepholeTable.ptr /\ mod = last.mod
  /\ PeepholeTable.is = "constant" =>
       /\ thrown = "none"
       /\ mod.heap[last.res] = Constant(PeepholeTable.bits)
       /\ last.res \in mod.constants
       /\ mod.ops = last.mod.ops

\* op(Or, [x, ~0]) was called with x not a Constant and returned the Constant ~0
C13_Witness ==
  /\ last.kind = "Or"
  /\ last.mod.heap[last.args[1]].t = "Input"
  /\ last.mod.heap[last.args[2]] = Constant(Bits(2, 3))
  /\ thrown = "none"
  /\ last.res = last.args[2]

\* ------------------------------------------------------------------- C14

\* the nodes of a module under construction, as the simulator reads them
Simulated(m) ==
  Module(m.heap, m.inputs, <<>>, <<>>, m.outputs)

\* the input assignments of a module: a BitString of the declared width for
\* every input
Assignments(m) ==
  {ini \in [Range(m.inputs) -> UNION {AllBits(w) : w \in 1..2}] :
     \A p \in Range(m.inputs) : ini[p].width = m.heap[p].width}

\* the recorded call had arguments as Op::infer_width wants them
WellTypedCall ==
  last.kind # "none" /\ infer_width(last.mod.heap, last.kind, last.args) >= 0

\* Op::eval of the kind of the recorded call on the values its arguments
\* simulate to
Unsimplified(ini) ==
  OpEval(last.kind,
         [i \in DOMAIN last.args |-> Sem(Simulated(last.mod), last.args[i], <<>>, <<>>, ini)])

\* C14: an op call with well-typed arguments returns a value (it fails only
\* when it folds constants on which Op::eval fails), the value has the width
\* Op::infer_width gives for the call, and under every input assignment on
\* which Op::eval of the unsimplified operator gives a BitString the value
\* simulates to that BitString.
C14_PeepholeSound ==
  WellTypedCall =>
    /\ thrown # "undefined"
    /\ thrown = "Error" => (ConstantCall /\ Folded = Thrown)
    /\ thrown = "none" =>
         /\ mod.heap[last.res].width = infer_width(last.mod.heap, last.kind, last.args)
         /\ \A ini \in Assignments(mod) :
              Unsimplified(ini) # Thrown =>
                Sem(Simulated(mod), last.res, <<>>, <<>>, ini) = Unsimplified(ini)

\* the same, apart from the calls that dereference a null pointer
C14_SoundWhenDefined ==
  thrown # "undefined" => (WellTypedCall =>
    /\ thrown = "Error" => (ConstantCall /\ Folded = Thrown)
    /\ thrown = "none" =>
         /\ mod.heap[last.res].width = infer_width(last.mod.heap, last.kind, last.args)
         /\ \A ini \in Assignments(mod) :
              Unsimplified(ini) # Thrown =>
                Sem(Simulated(mod), last.res, <<>>, <<>>, ini) = Unsimplified(ini))

\* ------------------------------------------------------------------- C15

\* the recorded call has arguments that the width typing table rejects
IllTypedCall ==
  LET w(i) == last.mod.heap[last.args[i]].width
  IN \/ /\ last.kind \in {"And", "Or", "Xor", "Add", "Sub", "Eq", "LtU", "LtS",
                          "LeU", "LeS"}
        /\ w(1) # w(2)
     \/ last.kind = "Select" /\ (w(2) # w(3) \/ w(1) # 1)
     \/ last.kind = "Slice" /\ last.mod.heap[last.args[3]].t # "Constant"

\* C15: an op call whose arguments violate the width typing table (unequal
\* widths of a binary bitwise, arithmetic or comparison operator, Select with
\* branches of different widths or a condition that is not 1 bit wide, Slice
\* with a width argument that is not a Constant) fails with an hdl::Error.
C15_IllTypedFails ==
  IllTypedCall => thrown = "Error"

\* ------------------------------------------------------------------- C16

\* q is an argument of the Op p, the clock or the next value of the Reg p, the
\* memory or the address of the Read p, or a field of a write of the Memory p
Linked(heap, p, q) ==
  LET n == heap[p]
  IN CASE n.t = "Op" -> \E i \in DOMAIN n.args : n.args[i] = q
       [] n.t = "Reg" -> q = n.clock \/ q = n.next
       [] n.t = "Read" -> q = n.memory \/ q = n.address
       [] n.t = "Memory" ->
            \E i \in DOMAIN n.writes :
              q \in {n.writes[i].clock, n.writes[i].address, n.writes[i].enable,
                     n.writes[i].value}
       [] OTHER -> FALSE

\* the nodes reachable from the nodes of S
RECURSIVE Reachable(_, _)
Reachable(heap, S) ==
  LET More(T) == IF T = S THEN S ELSE Reachable(heap, T)
  IN Bind(More, S \cup {q \in DOMAIN heap : \E p \in S : Linked(heap, p, q)})

\* C16: after a gc call the lists of the registers, memories and Unknowns and
\* the tables of the Ops and Constants hold exactly the nodes they held before
\* that are reachable from the value of an output; those nodes, the inputs and
\* the outputs are unchanged, and the unreachable ones are destroyed.
C16_GcKeepsReachable ==
  last.kind = "gc" =>
    LET old == last.mod
        R == Reachable(old.heap, Range(old.outputs))
        Kept(p) == p \in R
        Owned == Range(old.regs) \cup Range(old.memories) \cup Range(old.unknowns)
                   \cup old.ops \cup old.constants
    IN /\ mod.regs = SelectSeq(old.regs, Kept)
       /\ mod.memories = SelectSeq(old.memories, Kept)
       /\ mod.unknowns = SelectSeq(old.unknowns, Kept)
       /\ mod.ops = old.ops \cap R
       /\ mod.constants = old.constants \cap R
       /\ mod.inputs = old.inputs
       /\ mod.outputs = old.outputs
       /\ \A p \in R \cup Range(old.inputs) : mod.heap[p] = old.heap[p]
       /\ \A p \in Owned \ R : mod.heap[p] = Freed

\* gc was called on a module with two registers, one of them an output and the
\* other not reachable from an output: the first is kept, the second removed
C16_Witness ==
  /\ last.kind = "gc"
  /\ Len(last.mod.regs) = 2
  /\ Len(mod.regs) = 1
  /\ mod.regs[1] \in Range(mod.outputs)
  /\ \E p \in Range(last.mod.regs) : mod.heap[p] = Freed

\* ------------------------------------------------------------------- Cnf

\* Cnf::Cnf: no variable, no clause. A Literal is its id: the variable id - 1
\* when positive, its negation when negative.
NewCnf ==
  [literals |-> <<>>, clause_indices |-> <<>>, var_count |-> 0]

\* Cnf::add_clause
add_clause(cnf, clause) ==
  [cnf EXCEPT !.literals = @ \o clause,
              !.clause_indices = Append(@, Len(cnf.literals) + Len(clause))]

\* the clauses in order
RECURSIVE add_clauses(_, _)
add_clauses(cnf, clauses) ==
  IF clauses = <<>> THEN cnf
  ELSE add_clauses(add_clause(cnf, Head(clauses)), Tail(clauses))

\* Cnf::clause_start_index
clause_start_index(cnf, clause_id) ==
  IF clause_id = 0 THEN 0 ELSE cnf.clause_indices[clause_id]

\* the clause clause_id, from clause_start_index to clause_end_index
clause(cnf, clause_id) ==
  SubSeq(cnf.literals, clause_start_index(cnf, clause_id) + 1,
         cnf.clause_indices[clause_id + 1])

\* the relations: the clauses each of them adds
r_and(a, b, c) ==
  <<<<-a, -b, c>>, <<-c, a>>, <<-c, b>>>>

r_or(a, b, c) ==
  <<<<-a, c>>, <<-b, c>>, <<-c, a, b>>>>

r_xor(a, b, c) ==
  <<<<a, -b, c>>, <<b, -a, c>>, <<-b, -a, -c>>, <<b, a, -c>>>>

r_eq(a, b, c) ==
  <<<<a, b, c>>, <<-a, -b, c>>, <<a, -b, -c>>, <<-a, b, -c>>>>

r_not(a, b) ==
  <<<<a, b>>, <<-a, -b>>>>

\* a select that constrains the result only where cond holds
RSelectOfThen(cond, a, b, c) ==
  <<<<-cond, -a, c>>, <<-c, a, -cond>>>>

r_select(cond, a, b, c) ==
  <<<<-cond, -a, c>>, <<cond, -b, c>>, <<-c, a, -cond>>, <<-c, cond, b>>,
    <<-c, a, b>>>>

\* the clauses of a relation by its name
Relation(name, lits) ==
  CASE name = "and" -> r_and(lits[1], lits[2], lits[3])
    [] name = "or" -> r_or(lits[1], lits[2], lits[3])
    [] name = "xor" -> r_xor(lits[1], lits[2], lits[3])
    [] name = "eq" -> r_eq(lits[1], lits[2], lits[3])
    [] name = "not" -> r_not(lits[1], lits[2])
    [] OTHER -> r_select(lits[1], lits[2], lits[3], lits[4])

\* Cnf::var and the functional API on literals: f_and, f_or, f_xor, f_eq,
\* f_select, f_not and f_const on the arguments ptrs; res is the literal
\* returned
CnfCall(F, call) ==
  LET c == F.cnf.var_count + 1
      Fresh_(clauses) ==
        [F EXCEPT !.cnf = add_clauses([@ EXCEPT !.var_count = c], clauses), !.res = c]
  IN CASE call.f = "var" -> Fresh_(<<>>)
       [] call.f = "f_not" -> [F EXCEPT !.res = -F.ptrs[1]]
       [] call.f = "f_const" -> Fresh_(<<IF call.value THEN <<c>> ELSE <<-c>>>>)
       [] call.f = "f_and" -> Fresh_(r_and(F.ptrs[1], F.ptrs[2], c))
       [] call.f = "f_or" -> Fresh_(r_or(F.ptrs[1], F.ptrs[2], c))
       [] call.f = "f_xor" -> Fresh_(r_xor(F.ptrs[1], F.ptrs[2], c))
       [] call.f = "f_eq" -> Fresh_(r_eq(F.ptrs[1], F.ptrs[2], c))
       [] OTHER -> Fresh_(r_select(F.ptrs[1], F.ptrs[2], F.ptrs[3], c))

\* ---------------------------------------------------------------- clients

\* A client of the module, of a Flattening and of a CnfBuilder is a sequence
\* of statements over expressions.

\* the free addresses operator new chooses from while a Flattening is at work
Room == 3

\* sizeof(int) * 8
IntBits == 32

\* The expressions of hdl_flatten.hpp and of its client. Val(p) is a Value*
\* the function was given, Local(name, it) a local variable that holds a
\* Value* (carry, result[it], ...); Const(bits) is _module.constant(bits),
\* Fresh(width) is _module.unknown(width), InputOf(width) is
\* module.input("", width) and OpOf(kind, args) is _module.op(kind, {args}),
\* its arguments evaluated from left to right.
Val(p) ==
  [p |-> p]

Local(name, it) ==
  [local |-> <<name, it>>]

Const(bits) ==
  [f |-> "constant", bits |-> bits, args |-> <<>>]

Fresh(width) ==
  [f |-> "unknown", width |-> width, args |-> <<>>]

InputOf(width) ==
  [f |-> "input", width |-> width, args |-> <<>>]

OpOf(kind, args) ==
  [f |-> "op", kind |-> kind, args |-> args]

\* The statements: name[it] = expression; the calls flatten(of), split(of),
\* join(of) and module.output(of); the switch of flatten on the operator of;
\* _values[of] = bits; and throw.
Assign(name, it, expression) ==
  [call |-> "assign", dst |-> <<name, it>>, t |-> expression]

Stmt(call, of) ==
  [call |-> call, of |-> of]

Insert(of, bits) ==
  [call |-> "insert", of |-> of, bits |-> bits]

ThrowStmt(e) ==
  [call |-> "throw", e |-> e]

\* the statements of the sequences ss, one after the other
RECURSIVE Cat(_)
Cat(ss) ==
  IF ss = <<>> THEN <<>> ELSE Head(ss) \o Cat(Tail(ss))

\* A client at work on module m: the _values of its Flattening, the Cnf and
\* the _values of its CnfBuilder, the local variables of the running
\* functions, the arguments evaluated for the call in hand, the value the
\* last call returned, what was thrown, and the statements still to execute.
Client(m, values, order) ==
  [mod |-> m, res |-> 0, err |-> "none", values |-> values, order |-> order,
   cnf |-> NewCnf, lits |-> <<>>, locals |-> <<>>, ptrs |-> <<>>, todo |-> <<>>]

\* the heap with Room free addresses
Window(F) ==
  LET cells == 1..(Cardinality(Nodes(F.mod)) + Room)
  IN [F EXCEPT !.mod.heap = [p \in cells |-> IF p \in DOMAIN F.mod.heap
                                               THEN F.mod.heap[p] ELSE Freed]]

\* a call on the module or on the Cnf with the arguments ptrs: operator new
\* takes the lowest or the highest free address
OnModule(F, call) ==
  LET Pick(S) == Allocated(S, F.order)
      Do(W) ==
        Bind(Pick, CASE call.f = "op" -> ModuleOp(W, call.kind, W.ptrs)
                     [] call.f = "constant" -> constant(W, call.bits)
                     [] call.f = "unknown" -> unknown(W, call.width)
                     [] call.f = "input" -> input(W, "", call.width)
                     [] OTHER -> {CnfCall(W, call)})
  IN IF F.err # "none" THEN F ELSE Bind(Do, Window(F))

\* the value of an expression
RECURSIVE Emit(_, _)
RECURSIVE EmitArgs(_, _, _, _)
EmitArgs(F, args, i, ptrs) ==
  IF F.err # "none" \/ i > Len(args) THEN [F EXCEPT !.ptrs = ptrs]
  ELSE LET Rest(A) == EmitArgs(A, args, i + 1, Append(ptrs, A.res))
       IN Bind(Rest, Emit(F, args[i]))

Emit(F, t) ==
  IF F.err # "none" THEN F
  ELSE IF "p" \in DOMAIN t THEN Return(F, t.p)
  ELSE IF "local" \in DOMAIN t THEN Return(F, F.locals[t.local])
  ELSE LET Apply(A) == OnModule(A, t)
       IN Bind(Apply, EmitArgs(F, t.args, 1, <<>>))

\* ------------------------------------------------------------- Flattening

\* Flattening::select(Value*, Value*, Value*)
select(cond, a, b) ==
  OpOf("Or", <<OpOf("And", <<cond, a>>),
               OpOf("And", <<OpOf("Not", <<cond>>), b>>)>>)

\* The functions below give the statements a function of Flattening executes
\* on the bits a and b, and the bits it returns.

\* a sum without the carry chain
AddSubWithoutCarry(a, b, is_sub) ==
  [prog |-> [it \in 1..Len(a) |->
               Assign("c", it, OpOf("Xor", <<a[it], IF is_sub THEN OpOf("Not", <<b[it]>>)
                                                    ELSE b[it]>>))],
   bits |-> [it \in 1..Len(a) |-> Local("c", it)]]

\* Flattening::add_sub
add_sub(a, b, is_sub) ==
  LET carry == Local("carry", 0)
      b_bit(it) == IF is_sub THEN Local("b_bit", it) ELSE b[it]
      Body(it) ==
        (IF is_sub THEN <<Assign("b_bit", it, OpOf("Not", <<b[it]>>))>> ELSE <<>>)
          \o <<Assign("c", it, OpOf("Xor", <<OpOf("Xor", <<a[it], b_bit(it)>>), carry>>)),
               Assign("carry", 0,
                      OpOf("Or", <<OpOf("Or", <<OpOf("And", <<carry, a[it]>>),
                                                OpOf("And", <<carry, b_bit(it)>>)>>),
                                   OpOf("And", <<a[it], b_bit(it)>>)>>))>>
  IN [prog |-> <<Assign("carry", 0, Const(from_bool(is_sub)))>>
                 \o Cat([it \in 1..Len(a) |-> Body(it)]),
      bits |-> [it \in 1..Len(a) |-> Local("c", it)]]

\* Flattening::shr; result[it2] is the local variable ("result", it2)
shr(a, b, is_signed) ==
  LET size == Len(a)
      Shifted(it, it2) ==
        IF it < IntBits /\ it2 + Pow2(it) < size THEN Local("result", it2 + Pow2(it))
        ELSE IF is_signed THEN a[size] ELSE Const(from_bool(FALSE))
      OnePass(it) ==
        [k \in 1..size |->
           Assign("result", k - 1,
                  select(b[it + 1], Shifted(it, k - 1), Local("result", k - 1)))]
  IN [prog |-> [k \in 1..size |-> Assign("result", k - 1, a[k])]
                 \o Cat([k \in 1..Len(b) |-> OnePass(k - 1)]),
      bits |-> [k \in 1..size |-> Local("result", k - 1)]]

\* Flattening::shl; it2 runs from the highest bit down
FlatShl(a, b) ==
  LET size == Len(a)
      Shifted(it, it2) ==
        IF it < IntBits /\ it2 >= Pow2(it) THEN Local("result", it2 - Pow2(it))
        ELSE Const(from_bool(FALSE))
      OnePass(it) ==
        [k \in 1..size |->
           Assign("result", size - k,
                  select(b[it + 1], Shifted(it, size - k), Local("result", size - k)))]
  IN [prog |-> [k \in 1..size |-> Assign("result", k - 1, a[k])]
                 \o Cat([k \in 1..Len(b) |-> OnePass(k - 1)]),
      bits |-> [k \in 1..size |-> Local("result", k - 1)]]

\* Flattening::mul
mul(a, b) ==
  LET size == Len(a) + Len(b)
      result == [k \in 1..size |-> Local("result", k - 1)]
      shifted_a(shift) ==
        [k \in 1..size |->
           IF k > shift /\ k <= shift + Len(a) THEN a[k - shift]
           ELSE Const(from_bool(FALSE))]
      Sum(shift) == add_sub(result, shifted_a(shift), FALSE)
      Stage(shift) ==
        Sum(shift).prog
          \o [k \in 1..size |->
                Assign("result", k - 1, select(b[shift + 1], Sum(shift).bits[k], result[k]))]
  IN [prog |-> [k \in 1..size |-> Assign("result", k - 1, Const(from_bool(FALSE)))]
                 \o Cat([k \in 1..Len(b) |-> Stage(k - 1)]),
      bits |-> result]

\* Flattening::lt_u; it runs from the highest bit down
FlatLtU(a, b) ==
  LET result == Local("result", 0)
      inactive == Local("inactive", 0)
      Body(it) ==
        <<Assign("result", 0,
                 OpOf("Or", <<result,
                              OpOf("And", <<OpOf("Not", <<inactive>>),
                                            OpOf("And", <<OpOf("Not", <<a[it]>>), b[it]>>)>>)>>)),
          Assign("inactive", 0, OpOf("Or", <<inactive, OpOf("Xor", <<a[it], b[it]>>)>>))>>
  IN [prog |-> <<Assign("result", 0, Const(from_bool(FALSE))),
                 Assign("inactive", 0, Const(from_bool(FALSE)))>>
                 \o Cat([k \in 1..Len(a) |-> Body(Len(a) + 1 - k)]),
      bits |-> <<result>>]

\* Flattening::lt_s
FlatLtS(a, b) ==
  [prog |-> <<Assign("cond", 0, OpOf("Xor", <<a[Len(a)], b[Len(b)]>>)),
              Assign("a", 0, OpOf("And", <<a[Len(a)], OpOf("Not", <<b[Len(b)]>>)>>))>>
              \o FlatLtU(a, b).prog
              \o <<Assign("lt_s", 0,
                          select(Local("cond", 0), Local("a", 0), Local("result", 0)))>>,
   bits |-> <<Local("lt_s", 0)>>]

\* the switch of Flattening::flatten on an operator of the given kind and
\* width, arg the bits of its arguments: the statements it executes and the
\* bits it leaves in bits. It has no case for LeU and LeS.
FlattenSwitch(kind, width, arg) ==
  CASE kind \in {"And", "Or", "Xor"} ->
         [prog |-> [it \in 1..width |-> Assign("bits", it, OpOf(kind, <<arg[1][it], arg[2][it]>>))],
          bits |-> [it \in 1..width |-> Local("bits", it)]]
    [] kind = "Not" ->
         [prog |-> [it \in 1..width |-> Assign("bits", it, OpOf(kind, <<arg[1][it]>>))],
          bits |-> [it \in 1..width |-> Local("bits", it)]]
    [] kind = "Add" -> add_sub(arg[1], arg[2], FALSE)
    [] kind = "Sub" -> add_sub(arg[1], arg[2], TRUE)
    [] kind = "Mul" -> mul(arg[1], arg[2])
    [] kind = "Eq" ->
         [prog |-> <<Assign("is_not_eq", 0, Const(from_bool(FALSE)))>>
                     \o [it \in 1..Len(arg[1]) |->
                           Assign("is_not_eq", 0,
                                  OpOf("Or", <<Local("is_not_eq", 0),
                                               OpOf("Xor", <<arg[1][it], arg[2][it]>>)>>))]
                     \o <<Assign("bits", 1, OpOf("Not", <<Local("is_not_eq", 0)>>))>>,
          bits |-> <<Local("bits", 1)>>]
    [] kind = "LtU" -> FlatLtU(arg[1], arg[2])
    [] kind = "LtS" -> FlatLtS(arg[1], arg[2])
    [] kind = "Concat" -> [prog |-> <<>>, bits |-> arg[2] \o arg[1]]
    [] kind = "Slice" ->
         [prog |-> shr(arg[1], arg[2], FALSE).prog,
          bits |-> SubSeq(shr(arg[1], arg[2], FALSE).bits, 1, width)]
    [] kind = "Shl" -> FlatShl(arg[1], arg[2])
    [] kind = "ShrU" -> shr(arg[1], arg[2], FALSE)
    [] kind = "ShrS" -> shr(arg[1], arg[2], TRUE)
    [] kind = "Select" ->
         [prog |-> [it \in 1..Len(arg[2]) |->
                      Assign("bits", it, select(arg[1][1], arg[2][it], arg[3][it]))],
          bits |-> [it \in 1..Len(arg[2]) |-> Local("bits", it)]]
    [] OTHER -> [prog |-> <<>>, bits |-> <<>>]

\* the value a Val or a Local names
Named(F, t) ==
  IF "p" \in DOMAIN t THEN t.p ELSE F.locals[t.local]

\* Flattening::split, and the define the client makes with its result
split(F, value) ==
  [k \in 1..F.mod.heap[value].width |->
     Assign("bits", k, OpOf("Slice", <<Val(value), Const(from_uint(k - 1)),
                                       Const(from_uint(1))>>))]
    \o <<Insert(Val(value), [k \in 1..F.mod.heap[value].width |-> Local("bits", k)])>>

\* Flattening::join; bits[0] of an empty vector is read out of bounds
join(F, bits) ==
  IF bits = <<>> THEN <<ThrowStmt("undefined")>>
  ELSE <<Assign("value", 0, Val(bits[1]))>>
         \o [k \in 1..(Len(bits) - 1) |->
               Assign("value", 0, OpOf("Concat", <<Val(bits[k + 1]), Local("value", 0)>>))]

\* Flattening::flatten up to the switch
flatten(F, value) ==
  LET node == F.mod.heap[value]
      bits == [k \in 1..node.width |-> Local("bits", k)]
  IN IF value \in DOMAIN F.values THEN <<>>
     ELSE CASE node.t = "Constant" ->
                 [k \in 1..node.width |->
                    Assign("bits", k, Const(from_bool(at(node.value, k - 1))))]
                   \o <<Insert(Val(value), bits)>>
            [] node.t = "Unknown" ->
                 [k \in 1..node.width |-> Assign("bits", k, Fresh(1))]
                   \o <<Insert(Val(value), bits)>>
            [] node.t = "Op" ->
                 [i \in DOMAIN node.args |-> Stmt("flatten", Val(node.args[i]))]
                   \o <<Stmt("switch", Val(value))>>
            [] OTHER -> <<ThrowStmt("Error")>>

\* Flattening::flatten from the switch on: arg(index) is
\* _values.at(op->args[index]); a Slice wider than its argument takes bits
\* past the end of the vector
FlattenOp(F, value) ==
  LET node == F.mod.heap[value]
      arg == [i \in DOMAIN node.args |->
                [k \in DOMAIN F.values[node.args[i]] |-> Val(F.values[node.args[i]][k])]]
      Recorded(func) == func.prog \o <<Insert(Val(value), func.bits)>>
  IN IF node.kind = "Slice" /\ node.width > Len(arg[1]) THEN <<ThrowStmt("undefined")>>
     ELSE Recorded(FlattenSwitch(node.kind, node.width, arg))

\* ------------------------------------------------------------- CnfBuilder

\* The functions of Cnf on vectors of literals and of CnfBuilder, as the
\* statements they execute and the literals they return. Gate(f, args) is a
\* call of the functional API, a literal is a Val.
Gate(f, args) ==
  [f |-> f, args |-> args]

ConstLit(value) ==
  [f |-> "f_const", value |-> value, args |-> <<>>]

\* Cnf::f_not on a vector
f_not(a) ==
  [it \in DOMAIN a |-> Gate("f_not", <<a[it]>>)]

\* Cnf::f_eq on vectors
f_eq(a, b) ==
  IF Len(a) # Len(b) THEN [prog |-> <<ThrowStmt("Error")>>, bits |-> <<>>]
  ELSE [prog |-> <<Assign("result", 0, ConstLit(TRUE))>>
                   \o [it \in 1..Len(a) |->
                         Assign("result", 0,
                                Gate("f_and", <<Local("result", 0),
                                                Gate("f_eq", <<a[it], b[it]>>)>>))],
        bits |-> <<Local("result", 0)>>]

\* a comparison that looks at the lowest bit only
FLtULowestBit(a, b) ==
  [prog |-> <<Assign("result", 0,
                     Gate("f_and", <<Gate("f_not", <<a[1]>>), b[1]>>))>>,
   bits |-> <<Local("result", 0)>>]

\* Cnf::f_lt_u; it runs from the highest bit down
f_lt_u(a, b) ==
  LET active == Local("active", 0)
      result == Local("result", 0)
      Body(it) ==
        <<Assign("result", 0,
                 Gate("f_or", <<result,
                                Gate("f_and", <<active,
                                                Gate("f_and", <<Gate("f_not", <<a[it]>>),
                                                                b[it]>>)>>)>>)),
          Assign("active", 0,
                 Gate("f_and", <<active,
                                 Gate("f_not", <<Gate("f_and", <<a[it],
                                                                 Gate("f_not", <<b[it]>>)>>)>>)>>))>>
  IN IF Len(a) # Len(b) THEN [prog |-> <<ThrowStmt("Error")>>, bits |-> <<>>]
     ELSE [prog |-> <<Assign("active", 0, ConstLit(TRUE)),
                      Assign("result", 0, ConstLit(FALSE))>>
                      \o Cat([k \in 1..Len(a) |-> Body(Len(a) + 1 - k)]),
           bits |-> <<result>>]

\* Cnf::f_add_carry, the carry given as an expression
f_add_carry(a, b, carry) ==
  LET c == Local("carry", 0)
      Body(it) ==
        <<Assign("sum", it, Gate("f_xor", <<c, Gate("f_xor", <<a[it], b[it]>>)>>)),
          Assign("carry", 0,
                 Gate("f_or", <<Gate("f_or", <<Gate("f_and", <<c, b[it]>>),
                                               Gate("f_and", <<a[it], c>>)>>),
                                Gate("f_and", <<a[it], b[it]>>)>>))>>
  IN IF Len(a) # Len(b) THEN [prog |-> <<ThrowStmt("Error")>>, bits |-> <<>>]
     ELSE [prog |-> <<Assign("carry", 0, carry)>> \o Cat([it \in 1..Len(a) |-> Body(it)]),
           bits |-> [it \in 1..Len(a) |-> Local("sum", it)]]

\* Cnf::f_add
f_add(a, b) ==
  f_add_carry(a, b, ConstLit(FALSE))

\* Cnf::f_sub
f_sub(a, b) ==
  f_add_carry(a, f_not(b), ConstLit(TRUE))

\* a switch that gives every operator fresh variables for its bits
BuildSwitchFreshBits(kind, width, arg) ==
  [prog |-> [it \in 1..width |-> Assign("result", it, Gate("var", <<>>))],
   bits |-> [it \in 1..width |-> Local("result", it)]]

\* the switch of CnfBuilder::build on an operator of the given kind and
\* width, arg the literals of its arguments
BuildSwitch(kind, width, arg) ==
  LET elementwise(f, n) ==
        [prog |-> [it \in 1..width |->
                     Assign("result", it, Gate(f, [i \in 1..n |-> arg[i][it]]))],
         bits |-> [it \in 1..width |-> Local("result", it)]]
  IN CASE kind = "And" -> elementwise("f_and", 2)
       [] kind = "Or" -> elementwise("f_or", 2)
       [] kind = "Xor" -> elementwise("f_xor", 2)
       [] kind = "Not" -> elementwise("f_not", 1)
       [] kind = "Add" -> f_add(arg[1], arg[2])
       [] kind = "Sub" -> f_sub(arg[1], arg[2])
       [] kind = "Eq" -> f_eq(arg[1], arg[2])
       [] kind = "LtU" -> f_lt_u(arg[1], arg[2])
       [] kind = "LeU" ->
            [prog |-> f_lt_u(arg[1], arg[2]).prog
                        \o <<Assign("lt_u", 0, Local("result", 0))>>
                        \o f_eq(arg[1], arg[2]).prog
                        \o <<Assign("result", 0,
                                    Gate("f_or", <<Local("lt_u", 0), Local("result", 0)>>))>>,
             bits |-> <<Local("result", 0)>>]
       [] kind = "Select" ->
            [prog |-> [it \in 1..width |->
                         Assign("result", it,
                                Gate("f_select", <<arg[1][1], arg[2][it], arg[3][it]>>))],
             bits |-> [it \in 1..width |-> Local("result", it)]]
       [] OTHER -> [prog |-> <<ThrowStmt("Error")>>, bits |-> <<>>]

\* CnfBuilder::free
free(F, value) ==
  [it \in 1..F.mod.heap[value].width |-> Assign("result", it, Gate("var", <<>>))]
    \o <<[call |-> "record", of |-> Val(value),
          bits |-> [it \in 1..F.mod.heap[value].width |-> Local("result", it)]]>>

\* CnfBuilder::build up to the switch
build(F, value) ==
  LET node == F.mod.heap[value]
  IN IF value \in DOMAIN F.lits THEN <<>>
     ELSE CASE node.t = "Constant" ->
                 [it \in 1..node.value.width |->
                    Assign("result", it, ConstLit(at(node.value, it - 1)))]
                   \o <<[call |-> "record", of |-> Val(value),
                         bits |-> [it \in 1..node.width |-> Local("result", it)]]>>
            [] node.t = "Op" ->
                 [i \in DOMAIN node.args |-> Stmt("build", Val(node.args[i]))]
                   \o <<Stmt("encode", Val(value))>>
            [] OTHER -> <<ThrowStmt("Error")>>

\* CnfBuilder::build from the switch on: arg(index) is
\* _values.at(op->args[index])
BuildOp(F, value) ==
  LET node == F.mod.heap[value]
      arg == [i \in DOMAIN node.args |->
                [k \in DOMAIN F.lits[node.args[i]] |-> Val(F.lits[node.args[i]][k])]]
      Recorded(func) ==
        func.prog \o <<[call |-> "record", of |-> Val(value), bits |-> func.bits]>>
  IN Recorded(BuildSwitch(node.kind, node.width, arg))

\* CnfBuilder::require up to the clauses
require(F, value, string) ==
  IF F.mod.heap[value].width # string.width THEN <<ThrowStmt("Error")>>
  ELSE <<Stmt("build", Val(value)),
         [call |-> "units", of |-> Val(value), string |-> string]>>

\* CnfBuilder::require: the clause of every bit
Units(F, value, string) ==
  add_clauses(F.cnf, [it \in 1..F.mod.heap[value].width |->
                        IF at(string, it - 1) THEN <<F.lits[value][it]>>
                        ELSE <<-F.lits[value][it]>>])

\* ------------------------------------------------------------ statements

\* one statement; the statements it calls are executed next
Step(F, s) ==
  LET Store(A) ==
        IF A.err # "none" THEN A
        ELSE [A EXCEPT !.locals = (s.dst :> A.res) @@ @]
      Push(prog) == [F EXCEPT !.todo = prog \o @]
  IN CASE s.call = "assign" -> Bind(Store, Emit(F, s.t))
       [] s.call = "flatten" -> Push(flatten(F, Named(F, s.of)))
       [] s.call = "switch" -> Push(FlattenOp(F, Named(F, s.of)))
       [] s.call = "split" -> Push(split(F, Named(F, s.of)))
       [] s.call = "join" -> Push(join(F, F.values[Named(F, s.of)]))
       [] s.call = "insert" ->
            [F EXCEPT !.values = (Named(F, s.of) :> [k \in DOMAIN s.bits |-> Named(F, s.bits[k])])
                                   @@ @]
       [] s.call = "free" -> Push(free(F, Named(F, s.of)))
       [] s.call = "build" -> Push(build(F, Named(F, s.of)))
       [] s.call = "encode" -> Push(BuildOp(F, Named(F, s.of)))
       [] s.call = "require" -> Push(require(F, Named(F, s.of), s.string))
       [] s.call = "record" ->
            [F EXCEPT !.lits = (Named(F, s.of) :> [k \in DOMAIN s.bits |-> Named(F, s.bits[k])])
                                 @@ @]
       [] s.call = "units" ->
            [F EXCEPT !.cnf = Units(F, Named(F, s.of), s.string)]
       [] s.call = "output" ->
            [F EXCEPT !.mod.outputs = Append(@, Named(F, s.of))]
       [] OTHER -> [F EXCEPT !.err = s.e]

\* the next statement, if there is one and nothing was thrown
Next1(F) ==
  LET Do(s) ==
        LET Rest(A) == Step(A, s)
        IN Bind(Rest, [F EXCEPT !.todo = Tail(@)])
  IN IF F.err # "none" \/ F.todo = <<>> THEN F
     ELSE Bind(Do, Head(F.todo))

\* the next 2^n statements in order, or as many as there are
RECURSIVE Iterate(_, _)
Iterate(F, n) ==
  LET Again(A) == Iterate(A, n - 1)
      Half(A) == Bind(Again, Iterate(A, n - 1))
  IN IF F.err # "none" \/ F.todo = <<>> THEN F
     ELSE IF n = 0 THEN Next1(F)
     ELSE Bind(Half, F)

\* the statements still to execute, in order
RECURSIVE Continue(_, _)
Continue(F, n) ==
  LET More(A) ==
        IF A.err # "none" \/ A.todo = <<>> THEN A ELSE Continue(A, n + 1)
  IN Bind(More, Iterate(F, n))

\* the statements of prog in order, each with the statements it calls
Run(F, prog) ==
  LET Start(A) == Continue(A, 0)
  IN Bind(Start, [F EXCEPT !.todo = prog])

\* ---------------------------------------------------- the flattener's client

\* the widths of the inputs test_op declares, one case for every module
ArgWidthCases ==
  {<<1>>, <<2>>, <<1, 1>>, <<1, 2>>, <<2, 1>>, <<2, 2>>, <<3, 2>>,
   <<1, 1, 1>>, <<1, 2, 2>>, <<2, 2, 2>>}

\* test_op: an input of every width of arg_widths, defined by its split
Declare(arg_widths) ==
  Cat([i \in DOMAIN arg_widths |->
         <<Assign("arg", i, InputOf(arg_widths[i])), Stmt("split", Local("arg", i))>>])

\* test_op: op = module.op(kind, args), flattening.flatten(op), then the
\* outputs expected = op and result = join(flattening[op])
Test(kind, args) ==
  <<Assign("op", 0, OpOf(kind, args)),
    Stmt("flatten", Local("op", 0)),
    Stmt("output", Local("op", 0)),
    Stmt("join", Local("op", 0)),
    Stmt("output", Local("value", 0))>>

\* The client of test_op with the operator of any kind on the inputs; a Slice
\* is of the first input at the second, with a constant width.
TestOp(kind, width, order) ==
  /\ last = NoCall
  /\ (kind = "Slice") = (width > 0)
  /\ Len(mod.inputs) = IF kind = "Slice" THEN 2 ELSE ArgCount(kind)
  /\ width <= mod.heap[mod.inputs[1]].width
  /\ \E args \in {[i \in DOMAIN mod.inputs |-> Val(mod.inputs[i])]
                     \o IF kind = "Slice" THEN <<Const(Bits(2, width))>> ELSE <<>>} :
       \E R \in {Run(Client(mod, flattening, order), Test(kind, args))} :
         /\ mod' = R.mod
         /\ flattening' = R.values
         /\ thrown' = R.err
         /\ last' = [kind |-> kind, mod |-> mod, state |-> 0,
                     res |-> IF R.mod.outputs = <<>> THEN 0 ELSE R.mod.outputs[1]]
  /\ UNCHANGED <<swept, builder, simvars>>

\* the widths of the first i inputs together
RECURSIVE InputBits(_, _)
InputBits(m, i) ==
  IF i = 0 THEN 0 ELSE m.heap[m.inputs[i]].width + InputBits(m, i - 1)

\* test_op: states, the number of input vectors
States(m) ==
  Pow2(InputBits(m, Len(m.inputs)))

\* test_op: the input vector of the iteration state
TestInputs(m, state) ==
  [i \in DOMAIN m.inputs |->
     Bits(m.heap[m.inputs[i]].width,
          (state \div Pow2(InputBits(m, i - 1))) % Pow2(m.heap[m.inputs[i]].width))]

\* test_op: sim.update(inputs) of the next iteration. The module has no
\* register and no memory, so the update is one update_step.
TestUpdate ==
  /\ last.kind # "none" /\ thrown = "none"
  /\ last.state < States(mod)
  /\ \E inputs \in {TestInputs(mod, last.state)} :
       \E r \in {update_step(Simulated(mod),
                             [regs |-> <<>>, memories |-> <<>>, prev_clocks |-> <<>>,
                              outputs |-> [i \in DOMAIN mod.outputs |-> EmptyBits]],
                             [v \in Range(mod.inputs) |->
                                inputs[CHOOSE i \in DOMAIN inputs : mod.inputs[i] = v]])} :
         /\ outputs' = r.outputs
         /\ err' = r.err
  /\ last' = [last EXCEPT !.state = @ + 1]
  /\ UNCHANGED <<mod, thrown, swept, flattening, builder>>
  /\ UNCHANGED <<circ, regs, memories, prev_clocks, pc, initial, steps, lastClock,
                 edges, shadow, afterReset>>

FlatInit ==
  /\ \E arg_widths \in ArgWidthCases : \E order \in AllocationOrders :
       \E F \in {Run(Client(Blank(0), <<>>, order), Declare(arg_widths))} :
         mod = F.mod /\ flattening = F.values
  /\ builder = <<>>
  /\ thrown = "none" /\ swept = FALSE /\ last = NoCall
  /\ NoSimulation

FlatNext ==
  \/ \E kind \in OpKinds : \E width \in 0..3 : \E order \in AllocationOrders :
       TestOp(kind, width, order)
  \/ TestUpdate

FlatSpec ==
  FlatInit /\ [][FlatNext]_vars

\* ------------------------------------------------------------------- C17

\* the kinds of operator the flattener is tested on
FlattenedKinds ==
  {"And", "Or", "Xor", "Not", "Add", "Sub", "Mul", "Eq", "LtU", "LtS", "Concat",
   "Shl", "ShrU", "ShrS", "Select"}

\* the client flattened an operator of one of these kinds that Op::infer_width
\* accepts on the inputs
FlattenedCall ==
  /\ last.kind \in FlattenedKinds
  /\ infer_width(last.mod.heap, last.kind, last.mod.inputs) >= 0

\* C17: for an operator of every kind of FlattenedKinds on inputs defined by
\* split, flatten and join succeed, and under every input vector (shift
\* amounts at and above the width of the shifted value among them) the output
\* join(flatten(op)) simulates to the same BitString as the output op.
C17_FlattenCorrect ==
  FlattenedCall =>
    /\ thrown = "none"
    /\ Len(mod.outputs) = 2
    /\ last.state > 0 => (err = "none" /\ outputs[1] = outputs[2])

\* a signed shift of the 3-bit input 7 by 3 was simulated as the last of all
\* the input vectors, with both outputs at 7 and the second output built by join
C17_Witness ==
  /\ last.kind = "ShrS"
  /\ last.state = 32
  /\ err = "none"
  /\ outputs = <<Bits(3, 7), Bits(3, 7)>>
  /\ mod.outputs[1] # mod.outputs[2]
  /\ IsOp(mod.heap, mod.outputs[2], "Concat")

\* ------------------------------------------------------------------- C18

\* the bit list recorded for v has w(v) elements, each of width 1
BitList(v) ==
  /\ Len(flattening[v]) = mod.heap[v].width
  /\ \A k \in DOMAIN flattening[v] : mod.heap[flattening[v][k]].width = 1

\* C18: for every value that flatten accepted, of every Op kind (LeU, LeS
\* and Slice among them), the bit list recorded for it has exactly w(v)
\* elements and every element has width 1.
C18_BitListPerValue ==
  \A v \in DOMAIN flattening : BitList(v)

\* the same for the values that are no LeU or LeS operator
C18_BitListUnlessLe ==
  \A v \in DOMAIN flattening :
    ~(IsOp(mod.heap, v, "LeU") \/ IsOp(mod.heap, v, "LeS")) => BitList(v)

\* flatten recorded bits for a Slice, for a Mul and for a constant
C18_Recorded ==
  \E v \in DOMAIN flattening :
    /\ BitList(v)
    /\ IsOp(mod.heap, v, "Slice") /\ mod.heap[v].args[1] \in Range(mod.inputs)
    /\ mod.heap[v].width = 2
    /\ IsConstant(mod.heap, mod.heap[v].args[3])
    /\ mod.heap[v].args[3] \in DOMAIN flattening

\* ------------------------------------------------- the clients of the Cnf

\* the variables the client of the relations has made with var()
RelVars == 4

RelationNames ==
  {"and", "or", "xor", "eq", "not", "select"}

\* the literals of the variables 1..n
Literals(n) ==
  {l \in (-n)..n : l # 0}

\* the argument lists of a relation: literals over distinct variables
RelationArgs(name, n) ==
  {lits \in [1..(CASE name = "not" -> 2 [] name = "select" -> 4 [] OTHER -> 3)
               -> Literals(n)] :
     \A i \in DOMAIN lits : \A j \in DOMAIN lits :
       i # j => lits[i] # lits[j] /\ lits[i] # -lits[j]}

\* the client calls one of the relations once
RelCall(name, lits) ==
  /\ last = NoCall
  /\ builder' = [builder EXCEPT !.cnf = add_clauses(@, Relation(name, lits))]
  /\ last' = [kind |-> name, args |-> lits]
  /\ UNCHANGED <<mod, thrown, swept, flattening, simvars>>

RelInit ==
  /\ mod = NewModule /\ thrown = "none" /\ swept = FALSE /\ last = NoCall
  /\ flattening = <<>>
  /\ builder = [cnf |-> [NewCnf EXCEPT !.var_count = RelVars], values |-> <<>>]
  /\ NoSimulation

RelNext ==
  \E name \in RelationNames : \E lits \in RelationArgs(name, RelVars) :
    RelCall(name, lits)

RelSpec ==
  RelInit /\ [][RelNext]_vars

\* the widths of the inputs the client of the CnfBuilder declares
CnfWidthCases ==
  {<<1>>, <<2>>, <<1, 1>>, <<2, 2>>, <<3, 3>>, <<1, 2>>, <<1, 1, 1>>, <<1, 2, 2>>}

\* the targets the client requires
Targets ==
  UNION {AllBits(w) : w \in 1..3}

\* the values the client builds: the operator of a kind on the inputs, or
\* Eq(Add(a, b), Sub(a, Add(Not(b), 1))) on the inputs a and b
Built(kind, m) ==
  LET a == Val(m.inputs[1])
      b == Val(m.inputs[2])
      one == Const(Bits(m.heap[m.inputs[1]].width, 1))
  IN IF kind = "Identity"
     THEN OpOf("Eq", <<OpOf("Add", <<a, b>>),
                       OpOf("Sub", <<a, OpOf("Add", <<OpOf("Not", <<b>>), one>>)>>)>>)
     ELSE OpOf(kind, [i \in DOMAIN m.inputs |-> Val(m.inputs[i])])

\* The client builds a value, declares every input with free() and requires
\* the value to be target.
Require(kind, target, order) ==
  /\ last = NoCall
  /\ Len(mod.inputs) = IF kind = "Identity" THEN 2 ELSE ArgCount(kind)
  /\ \E R \in {Run([Client(mod, <<>>, order) EXCEPT !.cnf = builder.cnf,
                                                     !.lits = builder.values],
                   <<Assign("op", 0, Built(kind, mod))>>
                     \o [i \in DOMAIN mod.inputs |-> Stmt("free", Val(mod.inputs[i]))]
                     \o <<[call |-> "require", of |-> Local("op", 0), string |-> target]>>)} :
       /\ mod' = R.mod
       /\ builder' = [cnf |-> R.cnf, values |-> R.lits]
       /\ thrown' = R.err
       /\ last' = [kind |-> kind, mod |-> mod, target |-> target,
                   res |-> IF <<"op", 0>> \in DOMAIN R.locals THEN R.locals[<<"op", 0>>]
                           ELSE 0]
  /\ UNCHANGED <<swept, flattening, simvars>>

CnfInit ==
  /\ \E arg_widths \in CnfWidthCases : \E order \in AllocationOrders :
       mod = Run(Client(Blank(0), <<>>, order),
                 [i \in DOMAIN arg_widths |-> Assign("arg", i, InputOf(arg_widths[i]))]).mod
  /\ builder = [cnf |-> NewCnf, values |-> <<>>]
  /\ flattening = <<>>
  /\ thrown = "none" /\ swept = FALSE /\ last = NoCall
  /\ NoSimulation

CnfNext ==
  \E kind \in OpKinds \cup {"Identity"} : \E target \in Targets :
    \E order \in AllocationOrders : Require(kind, target, order)

CnfSpec ==
  CnfInit /\ [][CnfNext]_vars


\* ---------------------------------------------------- the Tseitin relations

\* the truth of a literal under an assignment of the variables
Holds(assignment, lit) ==
  IF lit > 0 THEN assignment[lit] ELSE ~assignment[-lit]

\* every clause of the cnf has a literal that holds
Satisfies(cnf, assignment) ==
  \A clause_id \in 0..(Len(cnf.clause_indices) - 1) :
    \E it \in DOMAIN clause(cnf, clause_id) :
      Holds(assignment, clause(cnf, clause_id)[it])

\* the result literal of a relation equals the Boolean function of its
\* argument literals
RelationHolds(name, lits, assignment) ==
  LET v(i) == Holds(assignment, lits[i])
  IN CASE name = "and" -> v(3) = (v(1) /\ v(2))
       [] name = "or" -> v(3) = (v(1) \/ v(2))
       [] name = "xor" -> v(3) = (v(1) # v(2))
       [] name = "eq" -> v(3) = (v(1) = v(2))
       [] name = "not" -> v(2) = ~v(1)
       [] OTHER -> v(4) = (IF v(1) THEN v(2) ELSE v(3))

\* C19: the clauses r_and, r_or, r_xor, r_eq, r_not or r_select adds for
\* literals over distinct variables are satisfied by exactly the assignments
\* in which the result literal equals the Boolean function of the argument
\* literals.
C19_TseitinRelations ==
  last # NoCall /\ last.kind \in RelationNames =>
    \A assignment \in [1..RelVars -> BOOLEAN] :
      Satisfies(builder.cnf, assignment)
        <=> RelationHolds(last.kind, last.args, assignment)

\* r_select was called on a negated condition and negated result, and its five
\* clauses are in the cnf
C19_Witness ==
  /\ last # NoCall /\ last.kind = "select"
  /\ last.args = <<-2, 1, -3, -4>>
  /\ Len(builder.cnf.clause_indices) = 5
  /\ Satisfies(builder.cnf, [i \in 1..RelVars |-> TRUE])
  /\ ~Satisfies(builder.cnf, [i \in 1..RelVars |-> i # 4])


\* ------------------------------------------------------------ CNF soundness

\* the kinds CnfBuilder::build has a case for
EncodedKinds ==
  {"And", "Or", "Xor", "Not", "Add", "Sub", "Eq", "LtU", "LeU", "Select"}

\* A partial assignment gives every variable 1 (true), -1 (false) or 0 (not
\* assigned); NoAssignment stands for a clause that cannot be satisfied.
NoAssignment ==
  <<>>

LitValue(assignment, lit) ==
  IF lit > 0 THEN assignment[lit] ELSE 0 - assignment[-lit]

\* one clause under a partial assignment: a clause with no true literal and
\* one literal left forces that literal, one with none left fails
Forced(cnf, assignment, clause_id) ==
  LET lits == clause(cnf, clause_id)
      left == {lits[it] : it \in {it \in DOMAIN lits : LitValue(assignment, lits[it]) = 0}}
  IN IF assignment = NoAssignment THEN NoAssignment
     ELSE IF \E it \in DOMAIN lits : LitValue(assignment, lits[it]) = 1 THEN assignment
     ELSE IF left = {} THEN NoAssignment
     ELSE IF Cardinality(left) = 1
     THEN LET lit == CHOOSE l \in left : TRUE
          IN IF lit > 0 THEN [assignment EXCEPT ![lit] = 1]
             ELSE [assignment EXCEPT ![-lit] = -1]
     ELSE assignment

\* the clauses from..to in order
RECURSIVE ForcedBy(_, _, _, _)
ForcedBy(cnf, assignment, from, to) ==
  LET mid == (from + to) \div 2
      Upper(A) == ForcedBy(cnf, A, mid + 1, to)
  IN IF from > to THEN assignment
     ELSE IF from = to THEN Forced(cnf, assignment, from)
     ELSE Bind(Upper, ForcedBy(cnf, assignment, from, mid))

\* unit propagation until nothing changes
RECURSIVE Propagated(_, _)
Propagated(cnf, assignment) ==
  LET Again(A) == IF A = assignment THEN A ELSE Propagated(cnf, A)
  IN Bind(Again, ForcedBy(cnf, assignment, 0, Len(cnf.clause_indices) - 1))

\* some total assignment extending the partial one satisfies every clause
RECURSIVE Satisfiable(_, _)
Satisfiable(cnf, assignment) ==
  LET Decide(A) ==
        LET open == {v \in DOMAIN A : A[v] = 0}
            v == CHOOSE u \in open : \A w \in open : u <= w
        IN IF A = NoAssignment THEN FALSE
           ELSE IF open = {} THEN TRUE
           ELSE \/ Satisfiable(cnf, [A EXCEPT ![v] = 1])
                \/ Satisfiable(cnf, [A EXCEPT ![v] = -1])
      Start(A) == Bind(Decide, Propagated(cnf, A))
  IN Bind(Start, assignment)

\* no variable assigned
Unassigned(cnf) ==
  [v \in 1..cnf.var_count |-> 0]

\* the literals free() made for the inputs, assigned the bits of inputs
OnInputs(m, b, inputs) ==
  [v \in 1..b.cnf.var_count |->
     LET of == {<<i, it>> \in (DOMAIN m.inputs) \X (1..3) :
                  /\ it <= m.heap[m.inputs[i]].width
                  /\ b.values[m.inputs[i]][it] = v}
         at_ == CHOOSE p \in of : TRUE
     IN IF of = {} THEN 0
        ELSE IF at(inputs[at_[1]], at_[2] - 1) THEN 1 ELSE -1]

\* the value the simulator computes for the required value on inputs
Simulator(m, value, inputs) ==
  Sem(Simulated(m), value, <<>>, <<>>,
      [v \in Range(m.inputs) |-> inputs[CHOOSE i \in DOMAIN inputs : m.inputs[i] = v]])

\* C20: for a value of an encoded kind over inputs declared with free(), after
\* require(output, target) the input assignments that extend to a satisfying
\* assignment of the CNF are exactly those under which the simulator computes
\* target for output; for Eq(Add(a, b), Sub(a, Add(Not(b), 1))) required to be
\* false the CNF is unsatisfiable.
C20_CnfSound ==
  /\ last.kind \in EncodedKinds \cup {"Identity"} /\ last.res # 0
       /\ mod.heap[last.res].width = last.target.width =>
       /\ thrown = "none"
       /\ \A state \in 0..(States(mod) - 1) :
            Satisfiable(builder.cnf, OnInputs(mod, builder, TestInputs(mod, state)))
              <=> Simulator(mod, last.res, TestInputs(mod, state)) = last.target
  /\ last.kind = "Identity" /\ last.res # 0 /\ last.target = Bits(1, 0) =>
       /\ thrown = "none"
       /\ ~Satisfiable(builder.cnf, Unassigned(builder.cnf))

\* the identity on two 3-bit inputs was encoded and required to be false: no
\* input assignment extends to a satisfying assignment
C20_Witness ==
  /\ thrown = "none" /\ last.kind = "Identity"
  /\ mod.heap[mod.inputs[1]].width = 3 /\ last.target = Bits(1, 0)
  /\ mod.heap[last.res].t = "Op"
  /\ builder.cnf.var_count > 6
  /\ \A state \in 0..(States(mod) - 1) :
       /\ Simulator(mod, last.res, TestInputs(mod, state)) = Bits(1, 1)
       /\ ~Satisfiable(builder.cnf, OnInputs(mod, builder, TestInputs(mod, state)))


\* ------------------------------------------------ the kinds build encodes

\* the one-bit gates
GateKinds ==
  {"And", "Or", "Xor", "Not"}

\* the client built an operator of one of the kinds and required a target of
\* its width
RequiredOp(kinds) ==
  /\ last.kind \in kinds /\ last.res # 0
  /\ mod.heap[last.res].t = "Op" /\ mod.heap[last.res].kind \in kinds
  /\ mod.heap[last.res].width = last.target.width

SliceOfSliceCall ==
  /\ last.kind = "Slice"
  /\ IsConstant(last.mod.heap, last.args[3])
  /\ IsOp(last.mod.heap, last.args[1], "Slice")
  /\ IsConstant(last.mod.heap, last.mod.heap[last.args[1]].args[2])

\* Slice(s, c1 + c2, w) on the value s simulates to
SliceAtSum(ini) ==
  LET inner == last.mod.heap[last.args[1]]
  IN OpEval("Slice",
            <<Sem(Simulated(last.mod), inner.args[1], <<>>, <<>>, ini),
              from_uint(as_uint64(last.mod.heap[inner.args[2]].value)
                          + as_uint64(last.mod.heap[last.args[2]].value)),
              last.mod.heap[last.args[3]].value>>)

\* C26: op(Slice, [Slice(s, c1, w1), o, w]) with a constant inner offset c1
\* and a non-constant outer offset o returns the hash-consed Slice op over its
\* arguments without failing or dereferencing a missing constant, and with a
\* constant o = c2 it returns Slice(s, c1 + c2, w).
C26_SliceOfSlice ==
  SliceOfSliceCall =>
    IF IsConstant(last.mod.heap, last.args[2])
    THEN /\ thrown = "none"
         /\ \A ini \in Assignments(mod) :
              SliceAtSum(ini) # Thrown =>
                Sem(Simulated(mod), last.res, <<>>, <<>>, ini) = SliceAtSum(ini)
    ELSE /\ thrown = "none"
         /\ IsOp(mod.heap, last.res, "Slice")
         /\ mod.heap[last.res].args = last.args

\* the half of C26 the code has: with both offsets constant the call returns
\* a value that simulates as Slice(s, c1 + c2, w)
C26_BothConstant ==
  SliceOfSliceCall /\ IsConstant(last.mod.heap, last.args[2]) =>
    /\ thrown = "none"
    /\ \A ini \in Assignments(mod) :
         SliceAtSum(ini) # Thrown =>
           Sem(Simulated(mod), last.res, <<>>, <<>>, ini) = SliceAtSum(ini)

\* a Slice of a Slice with both offsets constant was rewritten
C26_Rewritten ==
  /\ SliceOfSliceCall /\ IsConstant(last.mod.heap, last.args[2])
  /\ thrown = "none"
  /\ last.res # last.args[1]


\* ------------------------------------------- update calls and their history

\* the state of the simulation an update call starts in
Before ==
  [regs |-> regs, memories |-> memories, prev_clocks |-> prev_clocks,
   outputs |-> outputs]

\* what is recorded of an update call: the state it started in, and whether
\* it follows directly an update with the same inputs that has returned
Recorded(how) ==
  /\ last' = [kind |-> "update", how |-> how, before |-> Before,
              repeat |-> Returned /\ pc' = "running" /\ initial' = initial]
  /\ UNCHANGED <<mod, thrown, swept, flattening, builder>>

CallVector(inputs) ==
  /\ UpdateVectorCall(inputs)
  /\ Recorded("vector")

CallMap(inputs) ==
  /\ UpdateMapCall(inputs)
  /\ Recorded("map")

CallNext ==
  \/ \E inputs \in VectorInputs(circ) : CallVector(inputs)
  \/ \E inputs \in MapInputs(circ) : CallMap(inputs)
  \/ UpdateStep
  \/ Reset

\* the modules whose update calls are recorded
CallCircuits ==
  {"Counter", "Swap", "TwoPort", "Osc", "Ripple", "Lazy"}

CallInit ==
  \E name \in CallCircuits : SimInit(name)

CallSpec ==
  CallInit /\ [][CallNext]_vars


\* ------------------------------------------------------- a repeated update

\* C27: when update(inputs) has returned, an update with the same inputs that
\* follows it directly performs exactly one sub-step, changes no register
\* value, no memory cell and no prev_clocks entry, and produces the same
\* outputs.
C27_RepeatIsNoOp ==
  last.kind = "update" /\ last.repeat =>
    /\ steps <= 1
    /\ steps = 1 =>
         /\ pc = "idle" /\ err = "none"
         /\ regs = last.before.regs
         /\ memories = last.before.memories
         /\ prev_clocks = last.before.prev_clocks
         /\ outputs = last.before.outputs

\* the counter was clocked to a value other than its initial one, and the
\* update was repeated with the clock still high and has returned
C27_Witness ==
  /\ circ = "Counter" /\ last.kind = "update" /\ last.repeat
  /\ pc = "idle" /\ steps = 1 /\ lastClock
  /\ regs # ResetRegs(M)
  /\ outputs = regs

\* ---------------------------------------------- sub-steps of an update call

\* C28: when every register clock and every memory-write clock is a function
\* of module inputs and constants only, an update call performs at most two
\* sub-steps: every rising edge fires in the first sub-step, and the second
\* sub-step changes no register, no memory cell and no prev_clocks entry and
\* ends the call.
C28_AtMostTwoSubSteps ==
  /\ [](InputClocked(M) => steps <= 2)
  /\ [][InputClocked(M) /\ StepReturns /\ steps = 0 =>
          /\ regs' = EdgeTriggeredRegs
          /\ prev_clocks' = [c \in DOMAIN prev_clocks |-> at(Now(c), 0)]]_vars
  /\ [][InputClocked(M) /\ UpdateStep /\ steps = 1 =>
          /\ err' = "none" /\ pc' = "idle"
          /\ regs' = regs
          /\ \A k \in DOMAIN M.memories :
               Content(M, k, memories'[k]) = Content(M, k, memories[k])
          /\ prev_clocks' = prev_clocks]_vars

\* the two registers of Swap have exchanged their values in the first
\* sub-step of a call that returned after its second
C28_Witness ==
  /\ circ = "Swap" /\ pc = "idle" /\ err = "none" /\ steps = 2
  /\ regs = <<Bits(1, 1), Bits(1, 0)>>
  /\ \A c \in DOMAIN prev_clocks : prev_clocks[c]

\* ---------------------------------------------------------- a failed update

\* C30: an update call that raises an error leaves the register values, the
\* memory contents and the prev_clocks entries as they were before the call.
C30_FailedUpdateKeepsState ==
  last.kind = "update" /\ pc = "idle" /\ err # "none" /\ steps > 0 =>
    /\ regs = last.before.regs
    /\ \A k \in DOMAIN M.memories :
         Content(M, k, memories[k]) = Content(M, k, last.before.memories[k])
    /\ prev_clocks = last.before.prev_clocks

\* what the code has: a failed update leaves prev_clocks as the last sub-step
\* that returned has left it
C30_FailedUpdateKeepsClocks ==
  last.kind = "update" /\ pc = "idle" /\ err # "none" /\ steps = 1 =>
    prev_clocks = last.before.prev_clocks

\* an update of Lazy failed on the Unknown after the first register had fired
C30_PartlyFired ==
  /\ circ = "Lazy" /\ last.kind = "update" /\ pc = "idle" /\ err = "Error" /\ steps = 1
  /\ regs[1] # last.before.regs[1] /\ regs[2] = last.before.regs[2]


\* ------------------------------------------------ references after a gc

\* the nodes a node or a Memory refers to: the edges gc traces and, of a
\* Memory, the keys and the Reads of its reads map
References(heap, p) ==
  Edges(heap[p])
    \cup (IF heap[p].t = "Memory"
          THEN DOMAIN heap[p].reads \cup Range(heap[p].reads)
          ELSE {})

\* the nodes that were not destroyed
Surviving(heap) ==
  {p \in DOMAIN heap : heap[p].t # "Freed"}

\* C29: after Module::gc() every node a surviving node or a surviving Memory
\* refers to (the four fields of each write, every key and Read of its reads
\* map, and each Read's address) is itself a live node.
C29_NoDanglingReference ==
  last.kind = "gc" =>
    \A p \in Surviving(mod.heap) :
      \A q \in References(mod.heap, p) : q \in Surviving(mod.heap)

\* what the code has: every node gc reaches from an output refers to live
\* nodes only through the edges gc traces
C29_TracedReferencesLive ==
  last.kind = "gc" =>
    \A p \in Reachable(mod.heap, Range(mod.outputs)) :
      /\ p \in Surviving(mod.heap)
      /\ \A q \in Edges(mod.heap[p]) : q \in Surviving(mod.heap)

\* gc kept a memory whose reads map holds a Read at a destroyed address
C29_StaleRead ==
  /\ last.kind = "gc"
  /\ \E k \in Range(mod.memories) :
       \E address \in DOMAIN mod.heap[k].reads :
         /\ mod.heap[address].t = "Freed"
         /\ mod.heap[mod.heap[k].reads[address]].t = "Read"
         /\ mod.heap[mod.heap[k].reads[address]].address = address


\* -------------------------------------------------- BitString word array
\* The laws of the BitString are about the word array itself: operator~
\* flips the bits of the last word above the width too, and what makes the
\* laws hold is that every reader masks them. So here a BitString is its
\* _width and its _data, one set of bit positions (the bits that are 1) per
\* Word, and err as soon as an operation threw hdl::Error ("Error") or indexed
\* the word array outside its bounds ("undefined").

\* BitString::WORD_WIDTH
WORD_WIDTH == 32

WordPositions ==
  0 .. (WORD_WIDTH - 1)

word_count(width) ==
  (width \div WORD_WIDTH) + (IF width % WORD_WIDTH = 0 THEN 0 ELSE 1)

mask_lower(bits) ==
  {i \in WordPositions : i < bits}

high_word_mask(a) ==
  IF a.width % WORD_WIDTH = 0 THEN WordPositions
  ELSE mask_lower(a.width % WORD_WIDTH)

\* BitString(width): word_count(width) words, all zero
WordArray(width) ==
  [width |-> width, data |-> [j \in 1 .. word_count(width) |-> {}],
   err |-> "none"]

\* the first error of the operands of an operation, else its own
WordErr(errs, own) ==
  IF \E i \in DOMAIN errs : errs[i] # "none"
  THEN errs[CHOOSE i \in DOMAIN errs :
              errs[i] # "none" /\ \A j \in 1 .. (i - 1) : errs[j] = "none"]
  ELSE own

\* BitString(const std::string&): set() of every position of the string that is '1'
WordsOf(width, ones) ==
  [WordArray(width) EXCEPT
     !.data = [j \in 1 .. word_count(width) |->
                 {i \in WordPositions : (WORD_WIDTH * (j - 1) + i) \in ones}]]

\* at(index) on a BitString that is not in error
WordAt(a, index) ==
  (index % WORD_WIDTH) \in a.data[(index \div WORD_WIDTH) + 1]

\* BitString::one: set(0, true) throws when the width is 0
one(width) ==
  IF width = 0 THEN [WordArray(width) EXCEPT !.err = "Error"]
  ELSE WordsOf(width, {0})

\* x << s and x >> s on one Word, for s < WORD_WIDTH
WordShl(x, s) ==
  {i \in WordPositions : i >= s /\ (i - s) \in x}

WordShr(x, s) ==
  {i \in WordPositions : (i + s) \in WordPositions /\ (i + s) \in x}

\* DoubleWord(x) + DoubleWord(y) + carry: the low Word of the sum and the
\* bit above it
WordSum(x, y, carry) ==
  LET Into(i) ==
        \/ carry /\ \A k \in 0 .. (i - 1) : k \in x \cup y
        \/ \E j \in 0 .. (i - 1) :
             /\ j \in x \cap y
             /\ \A k \in (j + 1) .. (i - 1) : k \in x \cup y
  IN [word |-> {i \in WordPositions :
                  ((i \in x) # (i \in y)) # Into(i)},
      carry |-> Into(WORD_WIDTH)]

\* operator~: every word is inverted, the bits above the width included
WordNot(a) ==
  [a EXCEPT !.data = [j \in DOMAIN a.data |-> WordPositions \ a.data[j]]]

RECURSIVE AddWords(_, _, _, _, _)
AddWords(x, y, invert, carry, it) ==
  IF it > Len(x) THEN <<>>
  ELSE LET s == WordSum(x[it], IF invert THEN WordPositions \ y[it] ELSE y[it],
                        carry)
       IN <<s.word>> \o AddWords(x, y, invert, s.carry, it + 1)

\* add_carry<initial_carry, invert>
add_carry(a, other, initial_carry, invert) ==
  IF a.err # "none" \/ other.err # "none"
  THEN [a EXCEPT !.err = WordErr(<<a.err, other.err>>, "none")]
  ELSE IF a.width # other.width THEN [a EXCEPT !.err = "Error"]
  ELSE [a EXCEPT !.data = AddWords(a.data, other.data, invert, initial_carry, 1)]

WordPlus(a, b) ==
  add_carry(a, b, FALSE, FALSE)

WordMinus(a, b) ==
  add_carry(a, b, TRUE, TRUE)

\* shl_into: the words of into after the loop
shl_into(a, into, shift) ==
  LET inner_shift == shift % WORD_WIDTH
      outer_shift == shift \div WORD_WIDTH
      size == Len(a.data)
  IN [j \in DOMAIN into |->
        LET it == (j - 1) - outer_shift
        IN into[j]
           \cup (IF it >= 0 /\ it < size
                 THEN WordShl(a.data[it + 1], inner_shift) ELSE {})
           \cup (IF it - 1 >= 0 /\ it - 1 < size /\ inner_shift > 0
                 THEN WordShr(a.data[it], WORD_WIDTH - inner_shift) ELSE {})]

\* shr_u_into: the words of into after the loop; the last word of the source
\* is masked
shr_u_into(a, into, shift) ==
  LET inner_shift == shift % WORD_WIDTH
      outer_shift == shift \div WORD_WIDTH
      size == Len(a.data)
      word(it) == IF it + 1 = size THEN a.data[it + 1] \cap high_word_mask(a)
                  ELSE a.data[it + 1]
  IN [j \in DOMAIN into |->
        LET it == (j - 1) + outer_shift
        IN into[j]
           \cup (IF it < size THEN WordShr(word(it), inner_shift) ELSE {})
           \cup (IF it + 1 < size /\ inner_shift > 0
                 THEN WordShl(word(it + 1), WORD_WIDTH - inner_shift) ELSE {})]

\* zero_extend: the last word of the source is result._data[_data.size() - 1],
\* which is outside of the array when the source has no word
zero_extend(a, to_width) ==
  IF a.err # "none" THEN a
  ELSE IF to_width < a.width THEN [a EXCEPT !.err = "Error"]
  ELSE IF Len(a.data) = 0
  THEN [WordArray(to_width) EXCEPT !.err = "undefined"]
  ELSE [WordArray(to_width) EXCEPT
          !.data = [j \in DOMAIN @ |->
                      IF j < Len(a.data) THEN a.data[j]
                      ELSE IF j = Len(a.data)
                      THEN a.data[j] \cap high_word_mask(a)
                      ELSE {}]]

\* truncate: the words are copied as they are
truncate(a, to_width) ==
  IF a.err # "none" THEN a
  ELSE IF to_width > a.width THEN [a EXCEPT !.err = "Error"]
  ELSE [WordArray(to_width) EXCEPT !.data = [j \in DOMAIN @ |-> a.data[j]]]

\* operator==: _data.back() is outside of the array when there is no word
WordEq(a, other) ==
  IF a.err # "none" \/ other.err # "none"
  THEN [holds |-> FALSE, err |-> WordErr(<<a.err, other.err>>, "none")]
  ELSE IF a.width # other.width THEN [holds |-> FALSE, err |-> "none"]
  ELSE IF \E j \in 1 .. (Len(a.data) - 1) : a.data[j] # other.data[j]
  THEN [holds |-> FALSE, err |-> "none"]
  ELSE IF Len(a.data) = 0 THEN [holds |-> FALSE, err |-> "undefined"]
  ELSE LET mask == high_word_mask(a)
           back == Len(a.data)
       IN [holds |-> (a.data[back] \cap mask) = (other.data[back] \cap mask),
           err |-> "none"]

\* concat: this is the high part; the last word of other is
\* result._data[other._data.size() - 1]
WordConcat(a, other) ==
  IF a.err # "none" \/ other.err # "none"
  THEN [a EXCEPT !.err = WordErr(<<a.err, other.err>>, "none")]
  ELSE IF Len(other.data) = 0
  THEN [WordArray(a.width + other.width) EXCEPT !.err = "undefined"]
  ELSE LET result == WordArray(a.width + other.width)
           copied == [j \in DOMAIN result.data |->
                        IF j < Len(other.data) THEN other.data[j]
                        ELSE IF j = Len(other.data)
                        THEN other.data[j] \cap high_word_mask(other)
                        ELSE {}]
       IN [result EXCEPT !.data = shl_into(a, copied, other.width)]

WordSliceWidth(a, offset, width) ==
  IF a.err # "none" THEN a
  ELSE IF offset + width > a.width THEN [a EXCEPT !.err = "Error"]
  ELSE [WordArray(width) EXCEPT !.data = shr_u_into(a, @, offset)]

\* ---------------------------------------------------- the BitString laws

\* the widths of the operands: none, within one word, at and around the
\* boundaries of the first and the second word
LawWidths ==
  {0, 1, 2, 31, 32, 33, 64, 65}

\* the strings the operands are constructed from
LawStrings(width) ==
  {{}, 0 .. (width - 1), {0}, {width - 1} \cap (0 .. (width - 1)),
   {i \in 0 .. (width - 1) : i % 2 = 0},
   {i \in 0 .. (width - 1) : i % 3 = 1}}

\* an operand is constructed from a string or is the operator~ of one, which
\* has ones above its width
LawOperands ==
  UNION {{WordsOf(width, ones) : ones \in LawStrings(width)} \cup
         {WordNot(WordsOf(width, ones)) : ones \in LawStrings(width)} :
         width \in LawWidths}

LawNames ==
  {"add_not", "sub_self", "not_not", "extend_truncate", "concat_low",
   "concat_high"}

\* the two sides of a law on the operands a and b; w is the width that
\* zero_extend extends to
LawSides(law, a, b, w) ==
  CASE law = "add_not" ->
         <<WordPlus(WordPlus(a, WordNot(a)), one(a.width)), WordArray(a.width)>>
    [] law = "sub_self" -> <<WordMinus(a, a), WordArray(a.width)>>
    [] law = "not_not" -> <<WordNot(WordNot(a)), a>>
    [] law = "extend_truncate" -> <<truncate(zero_extend(a, w), a.width), a>>
    [] law = "concat_low" ->
         <<WordSliceWidth(WordConcat(a, b), 0, b.width), b>>
    [] law = "concat_high" ->
         <<WordSliceWidth(WordConcat(a, b), b.width, a.width), a>>

\* the client evaluates one law on its operands with operator==
LawCall(law, w) ==
  /\ last.kind = "operands"
  /\ LET sides == LawSides(law, last.a, last.b, w)
         equal == WordEq(sides[1], sides[2])
     IN /\ last' = [kind |-> law, a |-> last.a, b |-> last.b, to |-> w,
                    left |-> sides[1], holds |-> equal.holds]
        /\ thrown' = equal.err
  /\ UNCHANGED <<mod, swept, flattening, builder, simvars>>

AddNot == LawCall("add_not", last.a.width)
SubSelf == LawCall("sub_self", last.a.width)
NotNot == LawCall("not_not", last.a.width)
ExtendTruncate ==
  \E w \in LawWidths : w >= last.a.width /\ LawCall("extend_truncate", w)
ConcatLow == LawCall("concat_low", last.a.width)
ConcatHigh == LawCall("concat_high", last.a.width)

LawInit ==
  /\ mod = NewModule /\ thrown = "none" /\ swept = FALSE
  /\ flattening = <<>> /\ builder = <<>>
  /\ \E a \in LawOperands : \E b \in LawOperands :
       last = [kind |-> "operands", a |-> a, b |-> b]
  /\ NoSimulation

LawNext ==
  \/ AddNot
  \/ SubSelf
  \/ NotNot
  \/ ExtendTruncate
  \/ ConcatLow
  \/ ConcatHigh

LawSpec ==
  LawInit /\ [][LawNext]_vars

\* C23: every law of the BitString holds for operands of every width: its two
\* sides are computed without an error and operator== returns true on them
C23_BitStringLaws ==
  last.kind \in LawNames => thrown = "none" /\ last.holds

\* C23, what the code has: the laws hold for operands that have at least one
\* bit each; on an operand of width 0 operator==, zero_extend and concat index
\* the word before the array, and one() throws
C23_LawsOfNonEmpty ==
  /\ last.kind \in LawNames /\ last.a.width > 0 /\ last.b.width > 0
       => thrown = "none" /\ last.holds
  /\ last.kind \in {"add_not", "sub_self", "not_not", "extend_truncate"}
       /\ last.a.width > 0
       => thrown = "none" /\ last.holds

\* a - a on the operand of width 0: operator== reads _data.back() of an array
\* without a word
C23_EmptyOperand ==
  /\ last.kind = "sub_self" /\ last.a.width = 0
  /\ thrown = "undefined"

\* the laws are decided by the masks: an operand of 33 bits with ones above its
\* width is the high part of a concat, and the slice is equal to it all the same
C23_MaskedAbove ==
  /\ last.kind = "concat_high" /\ last.a.width = 33 /\ last.b.width = 31
  /\ last.a.data[2] # last.a.data[2] \cap {0}
  /\ last.left.data # last.a.data
  /\ thrown = "none" /\ last.holds


\* ------------------------------------------------------- PartialBitString
\* A PartialBitString is the pair of its _known and its _value, two
\* BitStrings of one width: bit i is known when _known has a 1 there.

\* the result of a PartialBitString operation that throws hdl::Error
PartialThrown ==
  [known |-> Thrown, value |-> Thrown]

\* PartialBitString(const BitString& known, const BitString& value)
Partial(known, value) ==
  IF known = Thrown \/ value = Thrown \/ known.width # value.width
  THEN PartialThrown
  ELSE [known |-> known, value |-> value]

\* PartialBitString(width): no bit is known
PartialOfWidth(width) ==
  [known |-> ZeroBits(width), value |-> ZeroBits(width)]

\* fully known as soon as one bit is known
IsPartlyKnown(p) ==
  ~is_zero(p.known)

is_fully_known(p) ==
  is_all_ones(p.known)

is_fully_unknown(p) ==
  is_zero(p.known)

\* BitString::upper: ones from from_bit upward
upper(width, from_bit) ==
  IF from_bit < width
  THEN [width |-> width, value |-> Pow2(width) - Pow2(from_bit)]
  ELSE ZeroBits(width)

\* BitString::zero_extend of a BitString of at least one bit
BitZeroExtend(a, to_width) ==
  IF to_width < a.width THEN Thrown ELSE [width |-> to_width, value |-> a.value]

\* the binop macro on operator+, operator- and mul_u
PartialBinop(name, a, other) ==
  IF is_fully_known(a) /\ is_fully_known(other)
  THEN LET impl == CASE name = "add" -> BitAdd(a.value, other.value)
                     [] name = "sub" -> BitSub(a.value, other.value)
                     [] name = "mul_u" -> mul_u(a.value, other.value)
       IN IF impl = Thrown THEN PartialThrown
          ELSE [known |-> BitNot(ZeroBits(impl.width)), value |-> impl]
  ELSE IF name = "mul_u" THEN PartialOfWidth(a.value.width + other.value.width)
  ELSE PartialOfWidth(a.value.width)

\* the cmp macro on eq, lt_u, lt_s, le_u and le_s: a Bool, or "Error" when the
\* comparison of the values throws
PartialCmp(op, a, other) ==
  IF is_fully_known(a) /\ is_fully_known(other)
  THEN IF op # "eq" /\ a.value.width # other.value.width THEN "Error"
       ELSE LET holds == CASE op = "eq" -> BitEq(a.value, other.value)
                           [] op = "lt_u" -> lt_u(a.value, other.value)
                           [] op = "lt_s" -> lt_s(a.value, other.value)
                           [] op = "le_u" -> lt_u(a.value, other.value)
                                             \/ BitEq(a.value, other.value)
                           [] op = "le_s" -> lt_s(a.value, other.value)
                                             \/ BitEq(a.value, other.value)
            IN IF holds THEN "True" ELSE "False"
  ELSE "Unknown"

\* operator<<(size_t), shr_u(size_t) and shr_s(size_t) of a PartialBitString
PartialShift(name, a, shift) ==
  LET width == a.value.width
      from_bit == IF shift >= width THEN 0 ELSE width - shift
  IN CASE name = "shl" ->
            Partial(BitOr(shl(a.known, shift),
                          IF shift > 0
                          THEN BitZeroExtend(
                                 BitNot(ZeroBits(IF shift < width THEN shift
                                                 ELSE width)), width)
                          ELSE ZeroBits(width)),
                    shl(a.value, shift))
       [] name = "shr_u" ->
            Partial(BitOr(shr_u(a.known, shift), upper(width, from_bit)),
                    shr_u(a.value, shift))
       [] name = "shr_s" ->
            Partial(BitOr(shr_u(a.known, shift),
                          IF at(a.known, width - 1) THEN upper(width, from_bit)
                          ELSE ZeroBits(width)),
                    shr_s(a.value, shift))

\* operator<<, shr_u and shr_s with a PartialBitString amount
PartialShiftBy(name, a, other) ==
  IF is_fully_known(other)
  THEN PartialShift(name, a, as_uint64(other.value))
  ELSE PartialOfWidth(a.value.width)

\* ------------------------------------------ PartialBitString operations

\* the widths of the operands
PartialWidths ==
  {1, 2}

\* the scalar shift amounts: none, within the width, the width and above it
PartialShifts ==
  0 .. 3

\* every pair of a _known and a _value of one width
PartialOperands ==
  UNION {{[known |-> Bits(w, k), value |-> Bits(w, v)] :
            k \in 0 .. (Pow2(w) - 1), v \in 0 .. (Pow2(w) - 1)} :
         w \in PartialWidths}

ArithmeticNames == {"add", "sub", "mul_u"}
CmpNames == {"eq", "lt_u", "lt_s", "le_u", "le_s"}
ShiftNames == {"shl", "shr_u", "shr_s"}

\* the client's call is recorded with its operands and its result
PartialCalled(form, name, shift, res, failed) ==
  /\ last.kind = "partial operands"
  /\ last' = [kind |-> form, name |-> name, a |-> last.a, b |-> last.b,
              shift |-> shift, res |-> res]
  /\ thrown' = IF failed THEN "Error" ELSE "none"
  /\ UNCHANGED <<mod, swept, flattening, builder, simvars>>

Arithmetic ==
  \E name \in ArithmeticNames :
    LET res == PartialBinop(name, last.a, last.b)
    IN PartialCalled("arithmetic", name, 0, res, res = PartialThrown)

Compare ==
  \E op \in CmpNames :
    LET res == PartialCmp(op, last.a, last.b)
    IN PartialCalled("cmp", op, 0, res, res = "Error")

ShiftScalar ==
  \E name \in ShiftNames : \E shift \in PartialShifts :
    LET res == PartialShift(name, last.a, shift)
    IN PartialCalled("shift", name, shift, res, res = PartialThrown)

ShiftPartial ==
  \E name \in ShiftNames :
    LET res == PartialShiftBy(name, last.a, last.b)
    IN PartialCalled("shift by", name, 0, res, res = PartialThrown)

PartialInit ==
  /\ mod = NewModule /\ thrown = "none" /\ swept = FALSE
  /\ flattening = <<>> /\ builder = <<>>
  /\ \E a \in PartialOperands : \E b \in PartialOperands :
       last = [kind |-> "partial operands", a |-> a, b |-> b]
  /\ NoSimulation

PartialNext ==
  \/ Arithmetic
  \/ Compare
  \/ ShiftScalar
  \/ ShiftPartial

PartialSpec ==
  PartialInit /\ [][PartialNext]_vars

\* an operand has at least one unknown bit
SomeUnknown(p) ==
  ~is_all_ones(p.known)

\* bit i of the PartialBitString p is known
KnownAt(p, i) ==
  at(p.known, i)

\* C24: every arithmetic operation, every shift (by a scalar or by a
\* PartialBitString) and every comparison returns a fully-unknown result
\* (Bool::Unknown for a comparison) whenever an operand has an unknown bit
C24_UnknownOperandUnknownResult ==
  /\ last.kind \in {"arithmetic", "shift by"}
       /\ (SomeUnknown(last.a) \/ SomeUnknown(last.b))
       => thrown = "none" /\ is_zero(last.res.known)
  /\ last.kind = "shift" /\ SomeUnknown(last.a)
       => thrown = "none" /\ is_zero(last.res.known)
  /\ last.kind = "cmp" /\ (SomeUnknown(last.a) \/ SomeUnknown(last.b))
       => last.res = "Unknown"

\* C24, amended: arithmetic and comparisons are fully unknown whenever an
\* operand has an unknown bit, and so is a shift by an amount that has an
\* unknown bit; a shift by a known amount moves the known bits with the value
\* bits, and the bits it fills in are known (for shr_s when the sign bit is)
C24_UnknownUnlessShifted ==
  /\ last.kind = "arithmetic" /\ (SomeUnknown(last.a) \/ SomeUnknown(last.b))
       => /\ thrown = "none" /\ is_zero(last.res.known)
          /\ last.res.known.width =
               IF last.name = "mul_u"
               THEN last.a.value.width + last.b.value.width
               ELSE last.a.value.width
  /\ last.kind = "cmp" /\ (SomeUnknown(last.a) \/ SomeUnknown(last.b))
       => last.res = "Unknown"
  /\ last.kind = "shift by" /\ SomeUnknown(last.b)
       => /\ thrown = "none" /\ is_zero(last.res.known)
          /\ last.res.known.width = last.a.value.width
  /\ \/ last.kind = "shift"
     \/ last.kind = "shift by" /\ ~SomeUnknown(last.b)
       => LET width == last.a.value.width
              shift == IF last.kind = "shift" THEN last.shift
                       ELSE last.b.value.value
          IN /\ thrown = "none" /\ last.res.known.width = width
             /\ \A i \in 0 .. (width - 1) :
                  KnownAt(last.res, i) <=>
                    CASE last.name = "shl" ->
                           i < shift \/ KnownAt(last.a, i - shift)
                      [] last.name = "shr_u" ->
                           i + shift >= width \/ KnownAt(last.a, i + shift)
                      [] last.name = "shr_s" ->
                           IF i + shift >= width THEN KnownAt(last.a, width - 1)
                           ELSE KnownAt(last.a, i + shift)

\* "x1" << 1 is the fully known "10"
C24_Witness ==
  /\ last.kind = "shift" /\ last.name = "shl" /\ last.shift = 1
  /\ last.a = [known |-> Bits(2, 1), value |-> Bits(2, 1)]
  /\ last.res = [known |-> Bits(2, 3), value |-> Bits(2, 2)]


\* ---------------------------------------------------------------- Interval
\* hdl::analysis::Interval: the BitStrings min and max of one width; the
\* values from min upward to max, through zero when max is below min.

\* BitString::one on a width of at least one bit
BitOne(width) ==
  Bits(width, 1)

\* BitString::truncate
BitTruncate(a, to_width) ==
  IF to_width > a.width THEN Thrown ELSE Bits(to_width, a.value)

le_u(a, b) ==
  lt_u(a, b) \/ BitEq(a, b)

min_u(a, other) ==
  IF lt_u(a, other) THEN a ELSE other

max_u(a, other) ==
  IF lt_u(a, other) THEN other ELSE a

\* PartialBitString::operator&, operator| and operator^
PartialAnd(a, other) ==
  Partial(BitOr(BitOr(BitAnd(a.known, other.known),
                      BitAnd(BitNot(a.value), a.known)),
                BitAnd(BitNot(other.value), other.known)),
          BitAnd(a.value, other.value))

PartialOr(a, other) ==
  Partial(BitOr(BitOr(BitAnd(a.known, other.known),
                      BitAnd(a.value, a.known)),
                BitAnd(other.value, other.known)),
          BitOr(a.value, other.value))

PartialXor(a, other) ==
  Partial(BitAnd(a.known, other.known), BitXor(a.value, other.value))

\* Interval(const BitString& _min, const BitString& _max) with
\* normalize_inplace: all values are stored as [0, 2^n - 1]
Interval(min, max) ==
  IF BitEq(BitAdd(max, BitOne(min.width)), min)
  THEN [min |-> ZeroBits(min.width), max |-> BitNot(ZeroBits(min.width))]
  ELSE [min |-> min, max |-> max]

\* Interval(const BitString& _value)
IntervalOfBits(value) ==
  [min |-> value, max |-> value]

\* Interval(const PartialBitString& _value)
IntervalOfPartial(p) ==
  [min |-> BitAnd(p.value, p.known),
   max |-> BitOr(BitAnd(p.value, p.known), BitNot(p.known))]

from_size_minus_one(min, size_minus_one) ==
  Interval(min, BitAdd(min, size_minus_one))

has_unsigned_wrap(i) ==
  lt_u(i.max, i.min)

dist(low, high) ==
  IF lt_u(high, low)
  THEN BitAdd(BitSub(BitAdd(high, BitNot(ZeroBits(low.width))), low),
              BitOne(low.width))
  ELSE BitSub(high, low)

size_minus_one(i) ==
  dist(i.min, i.max)

contains(i, value) ==
  IF has_unsigned_wrap(i)
  THEN le_u(i.min, value) \/ le_u(value, i.max)
  ELSE le_u(i.min, value) /\ le_u(value, i.max)

\* Interval::flatten: into the ring of a higher modulus
IntervalFlatten(i, zero, width) ==
  from_size_minus_one(BitZeroExtend(dist(zero, i.min), width),
                      BitZeroExtend(dist(i.min, i.max), width))

\* truncate without the test of the size
TruncateUnchecked(i, zero, to_width) ==
  Interval(BitAdd(BitTruncate(i.min, to_width), zero),
           BitAdd(BitTruncate(i.max, to_width), zero))

\* Interval::truncate: the inverse of flatten
IntervalTruncate(i, zero, to_width) ==
  IF is_zero(slice_width(size_minus_one(i), to_width, i.min.width - to_width))
  THEN Interval(BitAdd(BitTruncate(i.min, to_width), zero),
                BitAdd(BitTruncate(i.max, to_width), zero))
  ELSE Interval(ZeroBits(to_width), BitNot(ZeroBits(to_width)))

merge_assume_min(i, other) ==
  LET a == IntervalFlatten(i, i.min, i.min.width + 4)
      b == IntervalFlatten(other, i.min, i.min.width + 4)
  IN IntervalTruncate(Interval(min_u(a.min, b.min), max_u(a.max, b.max)),
                      i.min, i.min.width)

\* Interval::merge: the smaller of the two ways around the ring
merge(i, other) ==
  LET a == merge_assume_min(i, other)
      b == merge_assume_min(other, i)
  IN IF lt_u(size_minus_one(a), size_minus_one(b)) THEN a ELSE b

\* Interval::operator~
IntervalNot(i) ==
  Interval(BitNot(i.max), BitNot(i.min))

\* Interval::operator+
IntervalAdd(i, other) ==
  LET a == IntervalFlatten(i, i.min, i.min.width + 4)
      b == IntervalFlatten(other, i.min, i.min.width + 4)
  IN IntervalTruncate(Interval(BitAdd(a.min, b.min), BitAdd(a.max, b.max)),
                      BitAdd(i.min, i.min), i.min.width)

\* Interval::operator-: *this + ~other + BitString::one(width())
IntervalSub(i, other) ==
  IntervalAdd(IntervalAdd(i, IntervalNot(other)),
              IntervalOfBits(BitOne(i.min.width)))

\* Interval::select on a condition of width 1
IntervalSelect(cond, then, otherwise) ==
  IF ~contains(cond, from_bool(TRUE)) THEN otherwise
  ELSE IF ~contains(cond, from_bool(FALSE)) THEN then
  ELSE merge(then, otherwise)

\* the loop of as_partial_bit_string: every bit below a 1 becomes 1
RECURSIVE Smear(_, _)
Smear(unknown_bits, it) ==
  IF it < unknown_bits.width
  THEN Smear(BitOr(unknown_bits, shr_u(unknown_bits, it)), 2 * it)
  ELSE unknown_bits

as_partial_bit_string(i) ==
  IF has_unsigned_wrap(i) THEN PartialOfWidth(i.min.width)
  ELSE Partial(BitNot(Smear(BitXor(i.min, i.max), 1)), i.min)

\* the binop macro on operator&, operator| and operator^
IntervalBinop(name, i, other) ==
  LET a == as_partial_bit_string(i)
      b == as_partial_bit_string(other)
  IN IntervalOfPartial(CASE name = "and" -> PartialAnd(a, b)
                         [] name = "or" -> PartialOr(a, b)
                         [] name = "xor" -> PartialXor(a, b))

\* the binop macro on eq, lt_u, lt_s, le_u and le_s
IntervalCmp(op, i, other) ==
  PartialCmp(op, as_partial_bit_string(i), as_partial_bit_string(other))

\* -------------------------------------------------- Interval operations

\* the widths of the intervals
IntervalWidths ==
  {1, 2, 3}

\* every Interval(min, max) of a width
IntervalsOf(w) ==
  {Interval(Bits(w, lo), Bits(w, hi)) :
     lo \in 0 .. (Pow2(w) - 1), hi \in 0 .. (Pow2(w) - 1)}

LogicNames == {"and", "or", "xor"}

\* the client's call is recorded with its operands and its result: an
\* Interval, or the Bool of a comparison
IntervalCalled(form, name, cond, res, bool) ==
  /\ last.kind = "interval operands"
  /\ last' = [kind |-> form, name |-> name, a |-> last.a, b |-> last.b,
              cond |-> cond, res |-> res, bool |-> bool]
  /\ thrown' = IF res.min = Thrown \/ res.max = Thrown \/ bool = "Error"
               THEN "Error" ELSE "none"
  /\ UNCHANGED <<mod, swept, flattening, builder, simvars>>

IntervalComplement ==
  IntervalCalled("not", "not", last.a, IntervalNot(last.a), "none")

IntervalPlus ==
  IntervalCalled("add", "add", last.a, IntervalAdd(last.a, last.b), "none")

IntervalMinus ==
  IntervalCalled("sub", "sub", last.a, IntervalSub(last.a, last.b), "none")

IntervalMerge ==
  IntervalCalled("merge", "merge", last.a, merge(last.a, last.b), "none")

IntervalLogic ==
  \E name \in LogicNames :
    IntervalCalled("logic", name, last.a,
                   IntervalBinop(name, last.a, last.b), "none")

IntervalChoice ==
  \E cond \in IntervalsOf(1) :
    IntervalCalled("select", "select", cond,
                   IntervalSelect(cond, last.a, last.b), "none")

IntervalCompare ==
  \E op \in CmpNames :
    IntervalCalled("cmp", op, last.a, last.a, IntervalCmp(op, last.a, last.b))

IntervalInit ==
  /\ mod = NewModule /\ thrown = "none" /\ swept = FALSE
  /\ flattening = <<>> /\ builder = <<>>
  /\ \E w \in IntervalWidths : \E a \in IntervalsOf(w) : \E b \in IntervalsOf(w) :
       last = [kind |-> "interval operands", a |-> a, b |-> b]
  /\ NoSimulation

IntervalNext ==
  \/ IntervalComplement
  \/ IntervalPlus
  \/ IntervalMinus
  \/ IntervalMerge
  \/ IntervalLogic
  \/ IntervalChoice
  \/ IntervalCompare

IntervalSpec ==
  IntervalInit /\ [][IntervalNext]_vars

\* the values of an interval: from min upward to max, through zero when max
\* is below min
Members(i) ==
  LET w == i.min.width
      lo == i.min.value
      hi == i.max.value
  IN {Bits(w, v) : v \in {v \in 0 .. (Pow2(w) - 1) :
                            IF lo <= hi THEN lo <= v /\ v <= hi
                            ELSE lo <= v \/ v <= hi}}

\* the result of the recorded operation on the concrete values x and y
Concrete(x, y, c) ==
  CASE last.name = "not" -> BitNot(x)
    [] last.name = "add" -> BitAdd(x, y)
    [] last.name = "sub" -> BitSub(x, y)
    [] last.name = "and" -> BitAnd(x, y)
    [] last.name = "or" -> BitOr(x, y)
    [] last.name = "xor" -> BitXor(x, y)
    [] last.name = "select" -> IF c.value = 1 THEN x ELSE y

\* the concrete comparison of x and y
ConcreteCmp(op, x, y) ==
  CASE op = "eq" -> x.value = y.value
    [] op = "lt_u" -> x.value < y.value
    [] op = "le_u" -> x.value <= y.value
    [] op = "lt_s" -> lt_s(x, y)
    [] op = "le_s" -> lt_s(x, y) \/ x.value = y.value

FullInterval(w) ==
  [min |-> ZeroBits(w), max |-> BitNot(ZeroBits(w))]

\* C25: the abstract result of ~, +, -, &, |, ^ and select contains the
\* concrete result on every x of a, y of b (and condition c); merge contains
\* both intervals; a comparison that returns True or False agrees with the
\* concrete comparison of every x, y; the full interval plus any is full
C25_IntervalSound ==
  /\ last.kind \in {"not", "add", "sub", "logic"}
       => /\ thrown = "none"
          /\ \A x \in Members(last.a) : \A y \in Members(last.b) :
               Concrete(x, y, x) \in Members(last.res)
  /\ last.kind = "select"
       => /\ thrown = "none"
          /\ \A x \in Members(last.a) : \A y \in Members(last.b) :
               \A c \in Members(last.cond) :
                 Concrete(x, y, c) \in Members(last.res)
  /\ last.kind = "merge"
       => /\ thrown = "none"
          /\ Members(last.a) \cup Members(last.b) \subseteq Members(last.res)
  /\ last.kind = "cmp"
       => /\ last.bool \in {"True", "False", "Unknown"}
          /\ last.bool # "Unknown"
               => \A x \in Members(last.a) : \A y \in Members(last.b) :
                    ConcreteCmp(last.name, x, y) <=> last.bool = "True"
  /\ last.kind = "add" /\ last.a = FullInterval(last.a.min.width)
       => last.res = FullInterval(last.a.min.width)

\* a wrapping interval is added to a linear one and the sum wraps:
\* [6, 1] + [1, 2] = [7, 3] on 3 bits
C25_Witness ==
  /\ last.kind = "add"
  /\ last.a = [min |-> Bits(3, 6), max |-> Bits(3, 1)]
  /\ last.b = [min |-> Bits(3, 1), max |-> Bits(3, 2)]
  /\ last.res = [min |-> Bits(3, 7), max |-> Bits(3, 3)]


\* ------------------------------------------------------------ Cnf::simplify
\* The Simplification of a Cnf: uses (per variable the clauses that hold it
\* positively and negatively), clause_sizes, assignments (0 for a variable
\* that has none, 1 for true, -1 for false), inactive_clauses, the stack
\* unit_clauses and is_unsat. Clause ids count from 0 as in the code; a
\* variable is named by the id of its positive literal.

\* Literal::var of a literal
VarOf(lit) ==
  IF lit < 0 THEN -lit ELSE lit

ClauseIds(cnf) ==
  0 .. (Len(cnf.clause_indices) - 1)

\* Simplification::Simplification
Simplification(cnf) ==
  LET Using(v, polarity) ==
        {clause_id \in ClauseIds(cnf) :
           \E it \in DOMAIN clause(cnf, clause_id) :
             clause(cnf, clause_id)[it] = (IF polarity THEN v ELSE -v)}
  IN [uses |-> [v \in 1 .. cnf.var_count |->
                  [positive |-> Using(v, TRUE), negative |-> Using(v, FALSE)]],
      clause_sizes |-> [j \in 1 .. Len(cnf.clause_indices) |->
                          Len(clause(cnf, j - 1))],
      assignments |-> [v \in 1 .. cnf.var_count |-> 0],
      inactive_clauses |-> {},
      unit_clauses |-> SelectSeq([j \in 1 .. Len(cnf.clause_indices) |-> j - 1],
                                 LAMBDA clause_id :
                                   Len(clause(cnf, clause_id)) = 1),
      is_unsat |-> \E clause_id \in ClauseIds(cnf) :
                     Len(clause(cnf, clause_id)) = 0]

is_active(S, clause_id) ==
  clause_id \notin S.inactive_clauses

is_assigned(S, var_id) ==
  S.assignments[var_id] # 0

\* Uses::operator[] and Uses::is_pure
UsesOf(var_uses, polarity) ==
  IF polarity THEN var_uses.positive ELSE var_uses.negative

is_pure(var_uses) ==
  var_uses.positive = {} \/ var_uses.negative = {}

\* Simplification::deactivate_clause, for every clause of the set
deactivate_clauses(cnf, S, clause_ids) ==
  LET Erased(v, polarity) ==
        {clause_id \in clause_ids :
           \E it \in DOMAIN clause(cnf, clause_id) :
             clause(cnf, clause_id)[it] = (IF polarity THEN v ELSE -v)}
  IN [S EXCEPT
        !.inactive_clauses = @ \cup clause_ids,
        !.uses = [v \in DOMAIN @ |->
                    [positive |-> @[v].positive \ Erased(v, TRUE),
                     negative |-> @[v].negative \ Erased(v, FALSE)]]]

\* the inner loop of assign over the literals of one clause of
\* var_uses[!value], from the literal it on: every literal of the variable
\* takes one off the size of the clause, whatever its polarity
RECURSIVE ShrinkClause(_, _, _, _, _)
ShrinkClause(cnf, S, var_id, clause_id, it) ==
  IF it > Len(clause(cnf, clause_id)) THEN S
  ELSE LET size == S.clause_sizes[clause_id + 1]
                   - (IF VarOf(clause(cnf, clause_id)[it]) = var_id THEN 1 ELSE 0)
           sized == [S EXCEPT !.clause_sizes[clause_id + 1] = size]
       IN IF size = 1
          THEN ShrinkClause(cnf, [sized EXCEPT !.unit_clauses = Append(@, clause_id)],
                            var_id, clause_id, it + 1)
          ELSE IF size = 0 THEN [sized EXCEPT !.is_unsat = TRUE]
          ELSE ShrinkClause(cnf, sized, var_id, clause_id, it + 1)

\* the outer loop of assign over var_uses[!value], in the order of the set
RECURSIVE ShrinkClauses(_, _, _, _)
ShrinkClauses(cnf, S, var_id, clause_ids) ==
  IF clause_ids = {} \/ S.is_unsat THEN S
  ELSE LET clause_id == CHOOSE c \in clause_ids : \A d \in clause_ids : c <= d
       IN ShrinkClauses(cnf, ShrinkClause(cnf, S, var_id, clause_id, 1), var_id,
                        clause_ids \ {clause_id})

\* Simplification::assign; var_uses is the copy made before the loops
assign(cnf, S, var_id, value) ==
  IF S.is_unsat THEN S
  ELSE IF is_assigned(S, var_id)
  THEN IF S.assignments[var_id] # (IF value THEN 1 ELSE -1)
       THEN [S EXCEPT !.is_unsat = TRUE]
       ELSE S
  ELSE LET var_uses == S.uses[var_id]
           assigned == [S EXCEPT !.assignments[var_id] = IF value THEN 1 ELSE -1]
       IN ShrinkClauses(cnf,
                        deactivate_clauses(cnf, assigned, UsesOf(var_uses, value)),
                        var_id, UsesOf(var_uses, ~value))

\* Simplification::unit_prop
RECURSIVE unit_prop(_, _)
unit_prop(cnf, S) ==
  IF Len(S.unit_clauses) = 0 \/ S.is_unsat THEN S
  ELSE LET clause_id == S.unit_clauses[Len(S.unit_clauses)]
           popped == [S EXCEPT !.unit_clauses = SubSeq(@, 1, Len(@) - 1)]
           lits == clause(cnf, clause_id)
           open == {it \in DOMAIN lits : ~is_assigned(popped, VarOf(lits[it]))}
           first == CHOOSE it \in open : \A other \in open : it <= other
       IN IF ~is_active(popped, clause_id)
             \/ popped.clause_sizes[clause_id + 1] # 1
             \/ open = {}
          THEN unit_prop(cnf, popped)
          ELSE unit_prop(cnf, assign(cnf, popped, VarOf(lits[first]),
                                     lits[first] > 0))

\* Simplification::assign_pure, from the variable var_id on
RECURSIVE assign_pure(_, _, _)
assign_pure(cnf, S, var_id) ==
  IF var_id > cnf.var_count THEN S
  ELSE IF ~is_assigned(S, var_id) /\ is_pure(S.uses[var_id])
  THEN assign_pure(cnf, assign(cnf, S, var_id, S.uses[var_id].positive # {}),
                   var_id + 1)
  ELSE assign_pure(cnf, S, var_id + 1)

\* the loop of to_cnf over the literals of one active clause: out is the
\* result, the vars it has made for the variables of cnf, and the clause
RECURSIVE KeptClause(_, _, _, _)
KeptClause(S, lits, it, out) ==
  IF it > Len(lits) THEN out
  ELSE IF is_assigned(S, VarOf(lits[it])) THEN KeptClause(S, lits, it + 1, out)
  ELSE LET v == VarOf(lits[it])
           made == IF out.vars[v] # 0 THEN out
                   ELSE [out EXCEPT !.result.var_count = @ + 1,
                                    !.vars[v] = out.result.var_count + 1]
           lit == IF lits[it] < 0 THEN -made.vars[v] ELSE made.vars[v]
       IN KeptClause(S, lits, it + 1, [made EXCEPT !.clause = Append(@, lit)])

RECURSIVE KeptClauses(_, _, _, _)
KeptClauses(cnf, S, clause_id, out) ==
  IF clause_id >= Len(cnf.clause_indices) THEN out.result
  ELSE IF ~is_active(S, clause_id) THEN KeptClauses(cnf, S, clause_id + 1, out)
  ELSE LET kept == KeptClause(S, clause(cnf, clause_id), 1,
                              [out EXCEPT !.clause = <<>>])
       IN KeptClauses(cnf, S, clause_id + 1,
                      [kept EXCEPT !.result = add_clause(@, kept.clause)])

\* Simplification::to_cnf
to_cnf(cnf, S) ==
  IF S.is_unsat THEN add_clause(NewCnf, <<>>)
  ELSE KeptClauses(cnf, S, 0,
                   [result |-> NewCnf, vars |-> [v \in 1 .. cnf.var_count |-> 0],
                    clause |-> <<>>])

\* Cnf::simplify
simplify(cnf) ==
  to_cnf(cnf, assign_pure(cnf, unit_prop(cnf, Simplification(cnf)), 1))

\* ------------------------------------------------- the simplifier's client

\* the client makes at most SimplifyVars variables and adds at most
\* SimplifyClauses clauses of at most SimplifyLen literals
SimplifyVars == 2
SimplifyClauses == 3
SimplifyLen == 2

\* cnf.var()
MakeVar ==
  /\ last.kind = "building" /\ builder.cnf.var_count < SimplifyVars
  /\ builder' = [builder EXCEPT !.cnf.var_count = @ + 1]
  /\ UNCHANGED <<mod, thrown, swept, last, flattening, simvars>>

\* cnf.add_clause over literals of the variables made so far: a literal may
\* be repeated, and both polarities of a variable may be in one clause
AddClause ==
  /\ last.kind = "building"
  /\ Len(builder.cnf.clause_indices) < SimplifyClauses
  /\ \E n \in 0 .. SimplifyLen :
       \E lits \in [1 .. n -> Literals(builder.cnf.var_count)] :
         builder' = [builder EXCEPT !.cnf = add_clause(@, lits)]
  /\ UNCHANGED <<mod, thrown, swept, last, flattening, simvars>>

\* cnf.simplify()
Simplify ==
  /\ last.kind = "building"
  /\ last' = [kind |-> "simplify", simplified |-> simplify(builder.cnf)]
  /\ UNCHANGED <<mod, thrown, swept, builder, flattening, simvars>>

SimplifyInit ==
  /\ mod = NewModule /\ thrown = "none" /\ swept = FALSE
  /\ last = [kind |-> "building"]
  /\ flattening = <<>>
  /\ builder = [cnf |-> NewCnf, values |-> <<>>]
  /\ NoSimulation

SimplifyNext ==
  \/ MakeVar
  \/ AddClause
  \/ Simplify

SimplifySpec ==
  SimplifyInit /\ [][SimplifyNext]_vars

\* some assignment of the variables of the cnf satisfies every clause
HasModel(cnf) ==
  \E assignment \in [1 .. cnf.var_count -> BOOLEAN] : Satisfies(cnf, assignment)

\* a clause of the cnf holds both polarities of one variable
Tautological(cnf) ==
  \E clause_id \in ClauseIds(cnf) :
    \E it \in DOMAIN clause(cnf, clause_id) :
      \E other \in DOMAIN clause(cnf, clause_id) :
        clause(cnf, clause_id)[it] = -clause(cnf, clause_id)[other]

\* C21: the simplified Cnf is satisfiable if and only if the Cnf is
C21_SimplifyEquisatisfiable ==
  last.kind = "simplify" => (HasModel(last.simplified) <=> HasModel(builder.cnf))

\* C21, what the code has: the simplified Cnf is satisfiable whenever it is
\* equisatisfiable or a clause holds both polarities of one variable, and a
\* satisfiable simplified Cnf always comes from a satisfiable Cnf
C21_EquisatisfiableUnlessTautological ==
  last.kind = "simplify" =>
    /\ HasModel(last.simplified) => HasModel(builder.cnf)
    /\ ~Tautological(builder.cnf) /\ HasModel(builder.cnf)
         => HasModel(last.simplified)

\* the clauses {a} and {a, !a} are satisfiable, and simplified to the empty
\* clause
C21_LostModel ==
  /\ last.kind = "simplify"
  /\ builder.cnf = add_clauses([NewCnf EXCEPT !.var_count = 1], <<<<1>>, <<1, -1>>>>)
  /\ last.simplified = add_clause(NewCnf, <<>>)

====
